---- MODULE Spec2Model ----
(***************************************************************************)
(* coldDrawer: BTC <-> asset atomic swaps.                                 *)
(*                                                                         *)
(* The asset ledger (contracts/src/AssetRegistry.sol: an ERC-721 registry  *)
(* with an HTLC-style sale escrow), the swap coordinator (services/watcher:*)
(* BitcoinWatcher + HTLCManager + HTLCDetector + EVMBridge) and the        *)
(* Bitcoin HTLC output the coordinator watches.                            *)
(*                                                                         *)
(* Every ledger call is one action.  <op>Error evaluates the modifiers and *)
(* the require statements in the order of the source and yields the revert *)
(* string of the first that fails, "" when none does.  A reverted call     *)
(* changes nothing; an accepted call takes effect and is recorded in ret.  *)
(* The one call that hands control to its caller before it is done, mint   *)
(* by a contract, is two actions, and between them only that contract      *)
(* calls.                                                                  *)
(* Time is one clock, in seconds, shared by block.timestamp and            *)
(* Date.now()/1000.                                                        *)
(***************************************************************************)
EXTENDS Integers, Sequences, FiniteSets, Bags, TLC

VARIABLES
    owners,             \* ERC721._owners: tokenId -> address (ZERO = not minted)
    tokenApprovals,     \* ERC721._tokenApprovals: tokenId -> address
    operatorApprovals,  \* ERC721._operatorApprovals: the approved <<owner, operator>>
    assetMetadata,      \* AssetRegistry._assetMetadata: tokenId -> metadata
    saleEscrows,        \* AssetRegistry._saleEscrows: tokenId -> SaleEscrow
    log,                \* the ledger's event log, in emission order
    ret,                \* the last ledger call that took effect
    minting,            \* the mint that is inside onERC721Received of its caller
    now,                \* block.timestamp = floor(Date.now() / 1000)
    pendingHTLCs,       \* HTLCManager.pendingHTLCs: hashH -> PendingHTLC
    keyOrder,           \* the keys of that Map in insertion order
    processedTxs,       \* BitcoinWatcher.processedTxs: set of txids
    tasks,              \* the coordinator's suspended async calls (awaits), a bag
    btcTxs,             \* the transactions the Bitcoin API serves
    btcHTLC,            \* funding txid -> the HTLC output it created
    revealed,           \* the preimages published so far
    util,               \* the last call of a shared utility and its result
    service,            \* BitcoinWatcher: isRunning, pollTimer, ws, its sockets and timers
    emits               \* HTLCDetector: the swap_* events it emitted in the last step of a ledger call of its bridge

ledgerVars == <<owners, tokenApprovals, operatorApprovals, assetMetadata, saleEscrows,
               log, ret, minting>>
watcherVars == <<pendingHTLCs, keyOrder, processedTxs, tasks>>
btcVars == <<btcTxs, btcHTLC>>
vars == <<owners, tokenApprovals, operatorApprovals, assetMetadata, saleEscrows, log, ret,
          minting, now,
          pendingHTLCs, keyOrder, processedTxs, tasks, btcTxs, btcHTLC, revealed, util,
          service, emits>>

-----------------------------------------------------------------------------
(* Bounds of the model *)

MaxLog == 5

\* The Approval and ApprovalForAll events a log holds at most
MaxApprovals == 1

(* Program constants *)

MAX_NOTE_LENGTH == 140
MAX_TITLE_LENGTH == 100
MAX_JSON_LENGTH == 500
MIN_ESCROW_DURATION == 3600
MAX_ESCROW_DURATION == 2592000

-----------------------------------------------------------------------------
(* Value domains *)

ZERO == "0x0"
Addr == {"seller", "buyer", "other"}

\* The accounts with code.  ERC721._safeMint calls onERC721Received on
\* such a receiver, which may call the registry back before it returns.
Contracts == {"other"}

TokenIds == {1}

\* 32-byte values, by number: two preimages, and 0 for bytes32(0).
Secrets == {1, 2}
Bytes32 == {0} \cup Secrets

\* sha256(abi.encodePacked(secretS)): SHA-256 over the raw 32 bytes.  A
\* collision-free table on the preimages of the model; no digest is a
\* preimage of the model and none is bytes32(0).
SHA256(secretS) == 100 + secretS

Hashes == {0} \cup {SHA256(s) : s \in Secrets}

PRICE == 50000000
Prices == {0, PRICE}

EmptyEscrow ==
    [seller |-> ZERO, buyer |-> ZERO, hashH |-> 0, expiryTimestamp |-> 0,
     priceBTC |-> 0, active |-> FALSE]

EmptyMetadata == [title |-> 0, note |-> 0, frozen |-> FALSE]

\* An event of the log: a and b are its addresses in the order of the
\* signature, title the length of Minted's title and priceBTC SaleOpen's
\* price (0 in the events that have none).
Event(type, tokenId, a, b, hashH, secretS) ==
    [type |-> type, tokenId |-> tokenId, a |-> a, b |-> b,
     hashH |-> hashH, secretS |-> secretS, title |-> 0, priceBTC |-> 0]

Ret(op, caller, tokenId) == [op |-> op, caller |-> caller, tokenId |-> tokenId]

-----------------------------------------------------------------------------
(* ERC-721 (OpenZeppelin 5) as AssetRegistry inherits it *)

\* ERC721.isApprovedForAll
isApprovedForAll(owner, operator) == <<owner, operator>> \in operatorApprovals

\* ERC721._isAuthorized
isAuthorized(owner, spender, tokenId) ==
    /\ spender # ZERO
    /\ \/ owner = spender
       \/ isApprovedForAll(owner, spender)
       \/ tokenApprovals[tokenId] = spender

\* modifier tokenExists / _ownerOf
Exists(tokenId) == tokenId \in TokenIds /\ owners[tokenId] # ZERO

\* The condition of the modifiers inEscrow and notInEscrow
InEscrow(tokenId) == tokenId \in TokenIds /\ saleEscrows[tokenId].active

\* What a view call gives its caller: the value it returns, or the reason
\* it reverts with.
Returns(value) == [value |-> value]
Reverts(reason) == [revert |-> reason]

-----------------------------------------------------------------------------
(* A reverted call: the ledger rolls every effect back. *)

Reverted == UNCHANGED ledgerVars

\* The ledger executes one transaction at a time: a call by caller runs
\* when no call is executing, or when it is made from the onERC721Received
\* that a mint is waiting for.
MayCall(caller) == IF minting = << >> THEN TRUE ELSE caller = minting[1].caller

\* The log takes n more events, and those a mint that is waiting for its
\* callback emits when the callback returns.
LogRoom(n) ==
    Len(log) + n + (IF minting = << >> THEN 0
                    ELSE 1 + (IF minting[1].note > 0 THEN 1 ELSE 0)) <= MaxLog

-----------------------------------------------------------------------------
(* AssetRegistry.mint *)

mintError(caller, tokenId, title, category, identifiers, attributes, note) ==
    IF ~(tokenId > 0) THEN "Token ID must be greater than 0"
    ELSE IF ~(title > 0 /\ title <= MAX_TITLE_LENGTH) THEN "Invalid title length"
    ELSE IF ~(category > 0) THEN "Category cannot be empty"
    ELSE IF ~(identifiers <= MAX_JSON_LENGTH) THEN "Identifiers too long"
    ELSE IF ~(attributes <= MAX_JSON_LENGTH) THEN "Attributes too long"
    ELSE IF ~(note <= MAX_NOTE_LENGTH) THEN "Note too long"
    ELSE IF owners[tokenId] # ZERO THEN "ERC721InvalidSender"
    ELSE ""

\* The string arguments are given by their lengths in bytes.  For a caller
\* without code _safeMint returns at once and mint runs to its end.  For a
\* contract it calls msg.sender.onERC721Received after _owners is written
\* and Transfer is emitted: mint has no reentrancy guard, and the contract
\* may call the registry before it lets mint go on (mintAfterCallback).  A
\* callback that reverts undoes the mint and the calls made in it.
mint(caller, tokenId, title, category, identifiers, attributes, note) ==
    LET err == mintError(caller, tokenId, title, category, identifiers,
                         attributes, note)
    IN  /\ MayCall(caller)
        /\ IF err # ""
           THEN Reverted
           ELSE IF caller \in Contracts
           THEN /\ minting = << >>
                /\ LogRoom(2 + (IF note > 0 THEN 1 ELSE 0))
                /\ owners' = [owners EXCEPT ![tokenId] = caller]
                /\ log' = Append(log, Event("Transfer", tokenId, ZERO, caller, 0, 0))
                /\ minting' = << [caller |-> caller, tokenId |-> tokenId,
                                  title |-> title, note |-> note] >>
                /\ UNCHANGED <<tokenApprovals, operatorApprovals, assetMetadata,
                               saleEscrows, ret>>
           ELSE /\ LogRoom(2 + (IF note > 0 THEN 1 ELSE 0))
                /\ owners' = [owners EXCEPT ![tokenId] = caller]
                /\ assetMetadata' = [assetMetadata EXCEPT ![tokenId] =
                       [title |-> title, note |-> note, frozen |-> FALSE]]
                /\ log' = log
                       \o << Event("Transfer", tokenId, ZERO, caller, 0, 0),
                             [Event("Minted", tokenId, caller, ZERO, 0, 0)
                                 EXCEPT !.title = title] >>
                       \o (IF note > 0
                           THEN << Event("NoteAdded", tokenId, caller, ZERO, 0, 0) >>
                           ELSE << >>)
                /\ ret' = Ret("mint", caller, tokenId)
                /\ UNCHANGED <<tokenApprovals, operatorApprovals, saleEscrows, minting>>
        /\ UNCHANGED now

\* mint after _safeMint: onERC721Received has returned its selector.  The
\* metadata is stored over whatever the callback left there, and Minted
\* and NoteAdded are emitted.
mintAfterCallback ==
    /\ minting # << >>
    /\ LET call == minting[1]
       IN  /\ assetMetadata' = [assetMetadata EXCEPT ![call.tokenId] =
                  [title |-> call.title, note |-> call.note, frozen |-> FALSE]]
           /\ log' = log
                  \o << [Event("Minted", call.tokenId, call.caller, ZERO, 0, 0)
                             EXCEPT !.title = call.title] >>
                  \o (IF call.note > 0
                      THEN << Event("NoteAdded", call.tokenId, call.caller, ZERO, 0, 0) >>
                      ELSE << >>)
           /\ ret' = Ret("mint", call.caller, call.tokenId)
    /\ minting' = << >>
    /\ UNCHANGED <<owners, tokenApprovals, operatorApprovals, saleEscrows, now>>

-----------------------------------------------------------------------------
(* AssetRegistry.setNote and AssetRegistry.freezeMetadata *)

\* onlyTokenOwner, tokenExists, notInEscrow, then the two requires.
setNoteError(caller, tokenId, note) ==
    IF owners[tokenId] = ZERO THEN "ERC721NonexistentToken"
    ELSE IF owners[tokenId] # caller THEN "Not the token owner"
    ELSE IF saleEscrows[tokenId].active THEN "Token is in escrow"
    ELSE IF ~(note <= MAX_NOTE_LENGTH) THEN "Note too long"
    ELSE IF assetMetadata[tokenId].frozen THEN "Metadata is frozen"
    ELSE ""

\* The note is given by its length in bytes.
setNote(caller, tokenId, note) ==
    LET err == setNoteError(caller, tokenId, note)
    IN  /\ MayCall(caller)
        /\ IF err # ""
           THEN Reverted
           ELSE /\ LogRoom(1)
                /\ assetMetadata' = [assetMetadata EXCEPT ![tokenId].note = note]
                /\ log' = Append(log, Event("NoteAdded", tokenId, caller, ZERO, 0, 0))
                /\ ret' = Ret("setNote", caller, tokenId)
                /\ UNCHANGED <<owners, tokenApprovals, operatorApprovals, saleEscrows>>
        /\ UNCHANGED <<now, minting>>

freezeMetadataError(caller, tokenId) ==
    IF owners[tokenId] = ZERO THEN "ERC721NonexistentToken"
    ELSE IF owners[tokenId] # caller THEN "Not the token owner"
    ELSE IF saleEscrows[tokenId].active THEN "Token is in escrow"
    ELSE IF assetMetadata[tokenId].frozen THEN "Metadata already frozen"
    ELSE ""

freezeMetadata(caller, tokenId) ==
    LET err == freezeMetadataError(caller, tokenId)
    IN  /\ MayCall(caller)
        /\ IF err # ""
           THEN Reverted
           ELSE /\ LogRoom(1)
                /\ assetMetadata' = [assetMetadata EXCEPT ![tokenId].frozen = TRUE]
                /\ log' = Append(log, Event("MetadataFrozen", tokenId, caller, ZERO, 0, 0))
                /\ ret' = Ret("freezeMetadata", caller, tokenId)
                /\ UNCHANGED <<owners, tokenApprovals, operatorApprovals, saleEscrows>>
        /\ UNCHANGED <<now, minting>>

-----------------------------------------------------------------------------
(* AssetRegistry.saleOpen *)

\* saleOpen without the notInEscrow modifier
saleOpenErrorNoEscrowCheck(caller, tokenId, buyer, hashH, expiryTimestamp, priceBTC) ==
    IF owners[tokenId] = ZERO THEN "ERC721NonexistentToken"
    ELSE IF owners[tokenId] # caller THEN "Not the token owner"
    ELSE IF buyer = ZERO THEN "Invalid buyer address"
    ELSE IF buyer = caller THEN "Cannot sell to yourself"
    ELSE IF hashH = 0 THEN "Invalid hash"
    ELSE IF ~(priceBTC > 0) THEN "Price must be greater than 0"
    ELSE IF ~(expiryTimestamp > now + MIN_ESCROW_DURATION) THEN "Expiry too soon"
    ELSE IF ~(expiryTimestamp <= now + MAX_ESCROW_DURATION) THEN "Expiry too far"
    ELSE ""

\* saleOpen with expiryTimestamp >= block.timestamp + MIN_ESCROW_DURATION
saleOpenErrorAtMinimum(caller, tokenId, buyer, hashH, expiryTimestamp, priceBTC) ==
    IF owners[tokenId] = ZERO THEN "ERC721NonexistentToken"
    ELSE IF owners[tokenId] # caller THEN "Not the token owner"
    ELSE IF saleEscrows[tokenId].active THEN "Token is in escrow"
    ELSE IF buyer = ZERO THEN "Invalid buyer address"
    ELSE IF buyer = caller THEN "Cannot sell to yourself"
    ELSE IF hashH = 0 THEN "Invalid hash"
    ELSE IF ~(priceBTC > 0) THEN "Price must be greater than 0"
    ELSE IF ~(expiryTimestamp >= now + MIN_ESCROW_DURATION) THEN "Expiry too soon"
    ELSE IF ~(expiryTimestamp <= now + MAX_ESCROW_DURATION) THEN "Expiry too far"
    ELSE ""

saleOpenError(caller, tokenId, buyer, hashH, expiryTimestamp, priceBTC) ==
    IF owners[tokenId] = ZERO THEN "ERC721NonexistentToken"
    ELSE IF owners[tokenId] # caller THEN "Not the token owner"
    ELSE IF saleEscrows[tokenId].active THEN "Token is in escrow"
    ELSE IF buyer = ZERO THEN "Invalid buyer address"
    ELSE IF buyer = caller THEN "Cannot sell to yourself"
    ELSE IF hashH = 0 THEN "Invalid hash"
    ELSE IF ~(priceBTC > 0) THEN "Price must be greater than 0"
    ELSE IF ~(expiryTimestamp > now + MIN_ESCROW_DURATION) THEN "Expiry too soon"
    ELSE IF ~(expiryTimestamp <= now + MAX_ESCROW_DURATION) THEN "Expiry too far"
    ELSE ""

saleOpenEffect(caller, tokenId, buyer, hashH, expiryTimestamp, priceBTC) ==
    /\ saleEscrows' = [saleEscrows EXCEPT ![tokenId] =
           [seller |-> caller, buyer |-> buyer, hashH |-> hashH,
            expiryTimestamp |-> expiryTimestamp, priceBTC |-> priceBTC,
            active |-> TRUE]]
    /\ log' = Append(log, [Event("SaleOpen", tokenId, caller, buyer, hashH, 0)
                               EXCEPT !.priceBTC = priceBTC])
    /\ UNCHANGED <<owners, tokenApprovals, operatorApprovals, assetMetadata>>

saleOpen(caller, tokenId, buyer, hashH, expiryTimestamp, priceBTC) ==
    LET err == saleOpenError(caller, tokenId, buyer, hashH, expiryTimestamp,
                             priceBTC)
    IN  /\ MayCall(caller)
        /\ IF err # ""
           THEN Reverted
           ELSE /\ LogRoom(1)
                /\ saleOpenEffect(caller, tokenId, buyer, hashH,
                                  expiryTimestamp, priceBTC)
                /\ ret' = Ret("saleOpen", caller, tokenId)
        /\ UNCHANGED <<now, minting>>

-----------------------------------------------------------------------------
(* AssetRegistry.claim *)

\* claim with block.timestamp <= expiryTimestamp
claimErrorAtExpiry(caller, tokenId, secretS) ==
    LET escrow == saleEscrows[tokenId]
    IN  IF owners[tokenId] = ZERO THEN "Token does not exist"
        ELSE IF ~escrow.active THEN "Token is not in escrow"
        ELSE IF ~(now <= escrow.expiryTimestamp) THEN "Escrow expired"
        ELSE IF caller # escrow.buyer THEN "Only buyer can claim"
        ELSE IF SHA256(secretS) # escrow.hashH THEN "Invalid secret"
        ELSE IF owners[tokenId] # escrow.seller THEN "ERC721IncorrectOwner"
        ELSE ""

\* claim without require(msg.sender == escrow.buyer)
claimErrorAnyCaller(caller, tokenId, secretS) ==
    LET escrow == saleEscrows[tokenId]
    IN  IF owners[tokenId] = ZERO THEN "Token does not exist"
        ELSE IF ~escrow.active THEN "Token is not in escrow"
        ELSE IF ~(now < escrow.expiryTimestamp) THEN "Escrow expired"
        ELSE IF SHA256(secretS) # escrow.hashH THEN "Invalid secret"
        ELSE IF owners[tokenId] # escrow.seller THEN "ERC721IncorrectOwner"
        ELSE ""

claimError(caller, tokenId, secretS) ==
    LET escrow == saleEscrows[tokenId]
    IN  IF owners[tokenId] = ZERO THEN "Token does not exist"
        ELSE IF ~escrow.active THEN "Token is not in escrow"
        ELSE IF ~(now < escrow.expiryTimestamp) THEN "Escrow expired"
        ELSE IF caller # escrow.buyer THEN "Only buyer can claim"
        ELSE IF SHA256(secretS) # escrow.hashH THEN "Invalid secret"
        ELSE IF owners[tokenId] # escrow.seller THEN "ERC721IncorrectOwner"
        ELSE ""

\* delete _saleEscrows[tokenId]; _transfer(seller, buyer, tokenId); emit SaleSettle
claimEffect(tokenId, secretS) ==
    LET escrow == saleEscrows[tokenId]
    IN  /\ saleEscrows' = [saleEscrows EXCEPT ![tokenId] = EmptyEscrow]
        /\ owners' = [owners EXCEPT ![tokenId] = escrow.buyer]
        /\ tokenApprovals' = [tokenApprovals EXCEPT ![tokenId] = ZERO]
        /\ log' = log
               \o << Event("Transfer", tokenId, escrow.seller, escrow.buyer, 0, 0),
                     Event("SaleSettle", tokenId, escrow.seller, escrow.buyer,
                           escrow.hashH, secretS) >>
        /\ UNCHANGED <<operatorApprovals, assetMetadata>>

claim(caller, tokenId, secretS) ==
    LET err == claimError(caller, tokenId, secretS)
    IN  /\ MayCall(caller)
        /\ IF err # ""
           THEN Reverted
           ELSE /\ LogRoom(2)
                /\ claimEffect(tokenId, secretS)
                /\ ret' = Ret("claim", caller, tokenId)
        /\ UNCHANGED <<now, minting>>

-----------------------------------------------------------------------------
(* AssetRegistry.refund *)

\* refund with block.timestamp > expiryTimestamp
refundErrorAfterExpiry(caller, tokenId) ==
    LET escrow == saleEscrows[tokenId]
    IN  IF owners[tokenId] = ZERO THEN "Token does not exist"
        ELSE IF ~escrow.active THEN "Token is not in escrow"
        ELSE IF ~(now > escrow.expiryTimestamp \/ caller = escrow.seller)
             THEN "Cannot refund yet"
        ELSE ""

\* refund without the seller's exemption
refundErrorNoSeller(caller, tokenId) ==
    LET escrow == saleEscrows[tokenId]
    IN  IF owners[tokenId] = ZERO THEN "Token does not exist"
        ELSE IF ~escrow.active THEN "Token is not in escrow"
        ELSE IF ~(now >= escrow.expiryTimestamp) THEN "Cannot refund yet"
        ELSE ""

refundError(caller, tokenId) ==
    LET escrow == saleEscrows[tokenId]
    IN  IF owners[tokenId] = ZERO THEN "Token does not exist"
        ELSE IF ~escrow.active THEN "Token is not in escrow"
        ELSE IF ~(now >= escrow.expiryTimestamp \/ caller = escrow.seller)
             THEN "Cannot refund yet"
        ELSE ""

\* refund without delete _saleEscrows[tokenId]
refundEffectKeepsEscrow(tokenId) ==
    LET escrow == saleEscrows[tokenId]
    IN  /\ log' = Append(log, Event("SaleRefund", tokenId, escrow.seller,
                                    escrow.buyer, escrow.hashH, 0))
        /\ UNCHANGED <<owners, tokenApprovals, operatorApprovals, assetMetadata,
                       saleEscrows>>

\* delete _saleEscrows[tokenId]; emit SaleRefund
refundEffect(tokenId) ==
    LET escrow == saleEscrows[tokenId]
    IN  /\ saleEscrows' = [saleEscrows EXCEPT ![tokenId] = EmptyEscrow]
        /\ log' = Append(log, Event("SaleRefund", tokenId, escrow.seller,
                                    escrow.buyer, escrow.hashH, 0))
        /\ UNCHANGED <<owners, tokenApprovals, operatorApprovals, assetMetadata>>

refund(caller, tokenId) ==
    LET err == refundError(caller, tokenId)
    IN  /\ MayCall(caller)
        /\ IF err # ""
           THEN Reverted
           ELSE /\ LogRoom(1)
                /\ refundEffect(tokenId)
                /\ ret' = Ret("refund", caller, tokenId)
        /\ UNCHANGED <<now, minting>>

-----------------------------------------------------------------------------
(* AssetRegistry.transferFrom and both safeTransferFrom: notInEscrow, then  *)
(* the inherited ERC-721 transfer.  The receiver check of the safe forms   *)
(* is the last thing they do: a contract that accepts the token and calls  *)
(* the registry from onERC721Received does what it does by calling after   *)
(* the transfer.                                                           *)

TransferForms == {"transferFrom", "safeTransferFrom", "safeTransferFromData"}

\* transferFrom without the notInEscrow modifier
transferErrorNoEscrowCheck(caller, from, to, tokenId) ==
    IF to = ZERO THEN "ERC721InvalidReceiver"
    ELSE IF owners[tokenId] = ZERO THEN "ERC721NonexistentToken"
    ELSE IF ~isAuthorized(owners[tokenId], caller, tokenId)
         THEN "ERC721InsufficientApproval"
    ELSE IF owners[tokenId] # from THEN "ERC721IncorrectOwner"
    ELSE ""

transferError(caller, from, to, tokenId) ==
    IF saleEscrows[tokenId].active THEN "Token is in escrow"
    ELSE IF to = ZERO THEN "ERC721InvalidReceiver"
    ELSE IF owners[tokenId] = ZERO THEN "ERC721NonexistentToken"
    ELSE IF ~isAuthorized(owners[tokenId], caller, tokenId)
         THEN "ERC721InsufficientApproval"
    ELSE IF owners[tokenId] # from THEN "ERC721IncorrectOwner"
    ELSE ""

transferFrom(form, caller, from, to, tokenId) ==
    LET err == transferError(caller, from, to, tokenId)
    IN  /\ MayCall(caller)
        /\ IF err # ""
           THEN Reverted
           ELSE /\ LogRoom(1)
                /\ owners' = [owners EXCEPT ![tokenId] = to]
                /\ tokenApprovals' = [tokenApprovals EXCEPT ![tokenId] = ZERO]
                /\ log' = Append(log, Event("Transfer", tokenId, from, to, 0, 0))
                /\ ret' = Ret(form, caller, tokenId)
                /\ UNCHANGED <<operatorApprovals, assetMetadata, saleEscrows>>
        /\ UNCHANGED <<now, minting>>

\* ERC721.approve, inherited unchanged: it has no escrow check.  The owner
\* and the owner's operators may approve.
approveError(caller, to, tokenId) ==
    IF owners[tokenId] = ZERO THEN "ERC721NonexistentToken"
    ELSE IF owners[tokenId] # caller /\ ~isApprovedForAll(owners[tokenId], caller)
         THEN "ERC721InvalidApprover"
    ELSE ""

\* _approve(to, tokenId, _msgSender(), true): emit Approval(owner, to, tokenId)
approve(caller, to, tokenId) ==
    LET err == approveError(caller, to, tokenId)
    IN  /\ MayCall(caller)
        /\ IF err # ""
           THEN Reverted
           ELSE /\ LogRoom(1)
                /\ tokenApprovals' = [tokenApprovals EXCEPT ![tokenId] = to]
                /\ log' = Append(log, Event("Approval", tokenId, owners[tokenId],
                                            to, 0, 0))
                /\ ret' = Ret("approve", caller, tokenId)
                /\ UNCHANGED <<owners, operatorApprovals, assetMetadata, saleEscrows>>
        /\ UNCHANGED <<now, minting>>

\* ERC721.setApprovalForAll, inherited unchanged
setApprovalForAllError(caller, operator, approved) ==
    IF operator = ZERO THEN "ERC721InvalidOperator" ELSE ""

\* _setApprovalForAll(_msgSender(), operator, approved): the event is
\* emitted whether or not the approval changes.
setApprovalForAll(caller, operator, approved) ==
    LET err == setApprovalForAllError(caller, operator, approved)
    IN  /\ MayCall(caller)
        /\ IF err # ""
           THEN Reverted
           ELSE /\ LogRoom(1)
                /\ operatorApprovals' =
                       IF approved
                       THEN operatorApprovals \cup {<<caller, operator>>}
                       ELSE operatorApprovals \ {<<caller, operator>>}
                /\ log' = Append(log, [type |-> "ApprovalForAll", tokenId |-> 0,
                                       a |-> caller, b |-> operator, hashH |-> 0,
                                       secretS |-> 0, approved |-> approved])
                /\ ret' = Ret("setApprovalForAll", caller, 0)
                /\ UNCHANGED <<owners, tokenApprovals, assetMetadata, saleEscrows>>
        /\ UNCHANGED <<now, minting>>

-----------------------------------------------------------------------------
(* The views of AssetRegistry, each under the modifier tokenExists *)

isInEscrowView(tokenId) ==
    IF ~Exists(tokenId) THEN Reverts("Token does not exist")
    ELSE Returns(saleEscrows[tokenId].active)

canClaim(tokenId, secretS) ==
    IF ~Exists(tokenId) THEN Reverts("Token does not exist")
    ELSE Returns(/\ saleEscrows[tokenId].active
                 /\ now < saleEscrows[tokenId].expiryTimestamp
                 /\ SHA256(secretS) = saleEscrows[tokenId].hashH)

canRefund(tokenId) ==
    IF ~Exists(tokenId) THEN Reverts("Token does not exist")
    ELSE Returns(/\ saleEscrows[tokenId].active
                 /\ now >= saleEscrows[tokenId].expiryTimestamp)

-----------------------------------------------------------------------------------------------------------------------------------------------------
(* Bitcoin side.  A transaction is [txid, vout, vin]; vout[i] is            *)
(* [address, value] with value in tenths of a satoshi (the API gives BTC   *)
(* as a float), vin[i] is [txid, witness]; a witness element is            *)
(* [len, hex, val]: its length in characters, whether it is all hex        *)
(* digits, and the bytes it denotes.  An optional field (btcTxid?,         *)
(* secretS?, string | null) is a set with at most one element.             *)

MaxFundings == 1
MaxSwaps == 1
MaxTasks == 2
MaxConfirmations == 1
MaxSockets == 2

HOUR_IN_SECONDS == 3600
DEFAULT_BUFFER_HOURS == 2

\* BitcoinWatcherConfig.confirmations with MIN_CONFIRMATIONS unset
MIN_CONFIRMATIONS == 1

\* HTLCDetectorConfig.timeoutBufferSeconds with HTLC_TIMEOUT_BUFFER_HOURS unset
timeoutBufferSeconds == DEFAULT_BUFFER_HOURS * HOUR_IN_SECONDS

\* EVMBridge.wallet.address, the account of DEPLOYER_PRIVATE_KEY.  saleOpen is
\* onlyTokenOwner, so the key that opens the escrows is the seller's.
Wallet == "seller"

SellerBtc == "tb1qseller"

FundingIds == 1 .. MaxFundings
SpendId(f) == 10 + f

Hex64(secretS) == [len |-> 64, hex |-> TRUE, val |-> secretS]
SIG == [len |-> 144, hex |-> TRUE, val |-> 0]
PUBKEY == [len |-> 66, hex |-> TRUE, val |-> 0]
ONE == [len |-> 2, hex |-> TRUE, val |-> 1]
EMPTY == [len |-> 0, hex |-> FALSE, val |-> 0]
SCRIPT == [len |-> 194, hex |-> TRUE, val |-> 0]

\* The witness that satisfies the success branch of createHTLCScript
\* (signature and public key for OP_DUP OP_HASH160 .. OP_CHECKSIG, the
\* preimage for OP_SHA256, the OP_IF selector, the script), and the one the
\* comment of extractSecretFromWitness describes.
ClaimWitnesses(secretS) ==
    { <<SIG, PUBKEY, Hex64(secretS), ONE, SCRIPT>>,
      <<SIG, Hex64(secretS), SCRIPT>> }

\* The witness of the OP_ELSE branch.
RefundWitness == <<SIG, PUBKEY, EMPTY, SCRIPT>>

\* time.ts addHours / calculateTimeWindows(deadline).btcTimelock
addHours(timestamp, hours) == timestamp + hours * HOUR_IN_SECONDS
btcTimelock(assetTimelock) == addHours(assetTimelock, DEFAULT_BUFFER_HOURS)

\* bitcoin.ts extractSecretFromWitness
extractSecretFromWitness(witness) ==
    IF Len(witness) >= 2
    THEN LET preimage == witness[2]     \* witness[1], counting from 0
         IN  IF preimage.len > 0 /\ preimage.len = 64 /\ preimage.hex
             THEN {preimage.val}
             ELSE {}
    ELSE {}

\* BitcoinWatcher.extractSecretFromTransaction: the first input whose witness
\* yields a secret.
RECURSIVE extractSecretFromInputs(_)
extractSecretFromInputs(vin) ==
    IF vin = << >> THEN {}
    ELSE LET secret == extractSecretFromWitness(Head(vin).witness)
         IN  IF secret # {} THEN secret
             ELSE extractSecretFromInputs(Tail(vin))

extractSecretFromTransaction(tx) == extractSecretFromInputs(tx.vin)

\* Math.round(output.value * 100000000).  value is a decimal of the API's
\* JSON with nine places, here in tenths of a satoshi.  The parser gives the
\* double nearest to it, the product is rounded to a double again, and
\* Math.round rounds that half up.  Away from a half satoshi the two
\* roundings change nothing.  At a half satoshi, value = 10 n + 5, the
\* double m / 2^k (2^52 <= m < 2^53) nearest to value / 10^9 leaves the
\* remainder rho = value * 2^k - m * 10^9, the exact product is
\* n + 1/2 - rho / (10 * 2^k), and the double nearest to it is n + 1/2 or
\* more when rho / 10 is at most half the gap between n + 1/2 and the double
\* below it, measured in units of 2^-k.

\* j with 10^9 <= v * 2^j < 2 * 10^9, so that k = 52 + j
RECURSIVE DoublingsToUnit(_)
DoublingsToUnit(v) ==
    IF v >= 2000000000 THEN 0 - 1
    ELSE IF v >= 1000000000 THEN 0
    ELSE 1 + DoublingsToUnit(2 * v)

\* The binary exponent of v / 10: e with 2^e <= v / 10 < 2^(e + 1)
RECURSIVE BinaryExponent(_)
BinaryExponent(v) ==
    IF v < 10 THEN 0 - 1
    ELSE IF v < 20 THEN 0
    ELSE 1 + BinaryExponent(v \div 2)

\* y * 2^k modulo 5^9
RECURSIVE DoubledMod(_, _)
DoubledMod(y, k) ==
    IF k = 0 THEN y
    ELSE IF k >= 10 THEN DoubledMod((1024 * y) % 1953125, k - 10)
    ELSE DoubledMod((2 * y) % 1953125, k - 1)

\* The product of the double of value = 10 n + 5 and 100000000 rounds to
\* n + 1/2 or more.  rho, the remainder of value * 2^k modulo 10^9 = 2^9 * 5^9,
\* is 2^9 times that of value * 2^(k - 9) modulo 5^9; rho > 10^9 / 2: the
\* double lies above value / 10^9.  n + 1/2 is a power of two for n = 0
\* only, where the gap below is half the gap above.
HalfRoundsUp(value) ==
    LET j == DoublingsToUnit(value)
        rho == 512 * DoubledMod(value % 1953125, 43 + j)
        gap == BinaryExponent(value) + j - (IF value < 10 THEN 2 ELSE 1)
    IN  rho > 500000000 \/ rho <= 10 * 2 ^ gap

RoundSats(value) ==
    IF value % 10 = 5 /\ ~ HalfRoundsUp(value)
    THEN value \div 10
    ELSE (value + 5) \div 10

RECURSIVE SumOutputs(_)
SumOutputs(vout) ==
    IF vout = << >> THEN 0
    ELSE RoundSats(Head(vout).value) + SumOutputs(Tail(vout))

\* GET /address/<address>/txs
AddressTxs(address) ==
    {tx \in btcTxs : \E i \in DOMAIN tx.vout : tx.vout[i].address = address}

\* BitcoinTransaction.confirmations?, as the API reports it for a funding
\* transaction; no other transaction of the model carries the field.
Confirmations(txid) ==
    IF txid \in DOMAIN btcHTLC THEN {btcHTLC[txid].confirmations} ELSE {}

\* GET /tx/<txid>/outspends, then fetchTransaction of each spending txid
Outspends(txid) ==
    {tx \in btcTxs : \E i \in DOMAIN tx.vin : tx.vin[i].txid = txid}

-----------------------------------------------------------------------------
(* HTLCManager (utils/htlc.ts).  pendingHTLCs is the Map: its domain is    *)
(* the set of keys, and keyOrder lists them as the Map iterates: in the    *)
(* order of their first set() since they were last deleted.  An array of   *)
(* PendingHTLC objects is the sequence of their keys.                      *)

Terminal == {"claimed", "refunded", "expired"}

getExpiredHTLCs(m) ==
    {h \in DOMAIN m : m[h].deadline < now /\ m[h].status \notin Terminal}

Range(seq) == {seq[i] : i \in DOMAIN seq}

\* getAllHTLCs(): Array.from(this.pendingHTLCs.values())
getAllHTLCs == keyOrder

\* getHTLCsWaitingForBTC() = getHTLCsByStatus('waiting_btc')
getHTLCsWaitingForBTC ==
    SelectSeq(getAllHTLCs, LAMBDA h : pendingHTLCs[h].status = "waiting_btc")

addHTLC(htlc) ==
    [h \in DOMAIN pendingHTLCs \cup {htlc.hashH} |->
        IF h = htlc.hashH
        THEN [hashH |-> htlc.hashH, tokenId |-> htlc.tokenId,
              priceBTC |-> htlc.priceBTC,
              sellerAddress |-> htlc.sellerAddress,
              buyerAddress |-> htlc.buyerAddress, deadline |-> htlc.deadline,
              status |-> "waiting_btc", btcTxid |-> {}, secretS |-> {},
              createdAt |-> now, updatedAt |-> now]
        ELSE pendingHTLCs[h]]

\* updateHTLCStatus(hashH, status, extra) on the map m; extra is the record
\* of the fields Object.assign overwrites.
updateHTLCStatus(m, hashH, status, extra) ==
    IF hashH \notin DOMAIN m THEN m
    ELSE [m EXCEPT ![hashH] =
            [f \in DOMAIN m[hashH] |->
                IF f \in DOMAIN extra THEN extra[f]
                ELSE IF f = "status" THEN status
                ELSE IF f = "updatedAt" THEN now
                ELSE m[hashH][f]]]

NoExtra == [f \in {} |-> {}]

validateHTLCMatch(htlc, btcTx) ==
    LET expectedAmount == htlc.priceBTC
        actualAmount == SumOutputs(btcTx.vout)
        errors ==
            (IF actualAmount < expectedAmount
             THEN {"Insufficient BTC amount"} ELSE {})
            \cup (IF htlc.deadline < now THEN {"HTLC has expired"} ELSE {})
        warnings ==
            IF \E c \in Confirmations(btcTx.txid) : c < 1
            THEN {"Transaction not yet confirmed"} ELSE {}
    IN  [valid |-> errors = {}, errors |-> errors, warnings |-> warnings]

\* cleanup() without the test of the status
cleanupAnyStatus(m) ==
    LET expiredThreshold == now - 24 * 60 * 60
    IN  [h \in {k \in DOMAIN m : ~ (m[k].updatedAt < expiredThreshold)} |-> m[h]]

\* cleanup(): delete the terminal swaps last updated more than 24 h ago.
cleanup(m) ==
    LET expiredThreshold == now - 24 * 60 * 60
    IN  [h \in {k \in DOMAIN m : ~ (/\ m[k].updatedAt < expiredThreshold
                                    /\ m[k].status \in Terminal)} |-> m[h]]

-----------------------------------------------------------------------------
(* The suspended calls of the coordinator.  A task is what a call holds   *)
(* across its await: the PendingHTLC it was called with (the fields no    *)
(* code assigns after addHTLC; btcTxid as read before the await), the     *)
(* arguments of the ledger transaction it has submitted and, for a call   *)
(* of pollForUpdates, the rest of the array its loop runs over.  answer   *)
(* is what the ledger has done with the call so far: nothing, the value   *)
(* of the view as the ledger computed it, or the receipt of the           *)
(* transaction as the ledger included it; the call goes on when its       *)
(* promise settles, which is later.  tasks is a bag: two calls that hold  *)
(* the same are two calls.                                                *)

Task(kind, context, htlc, btcTxid, secretS, expiryTimestamp) ==
    [kind |-> kind, context |-> context, hashH |-> htlc.hashH,
     tokenId |-> htlc.tokenId, priceBTC |-> htlc.priceBTC,
     sellerAddress |-> htlc.sellerAddress,
     buyerAddress |-> htlc.buyerAddress, deadline |-> htlc.deadline,
     btcTxid |-> btcTxid, secretS |-> secretS,
     expiryTimestamp |-> expiryTimestamp, rest |-> << >>, answer |-> << >>]

\* The receipt of an included transaction: status is 1, or 0 when the
\* transaction reverted (tx.wait() then rejects with CALL_EXCEPTION).
Receipt(status) == [status |-> status]

\* An element of the array of a loop: the object of the Map under
\* htlc.hashH (btcTxid = {}, its fields are read from the Map when the loop
\* gets to it), or an object the Map has let go of, with the btcTxid it had.
Held(htlc) ==
    [hashH |-> htlc.hashH, tokenId |-> htlc.tokenId, priceBTC |-> htlc.priceBTC,
     sellerAddress |-> htlc.sellerAddress,
     buyerAddress |-> htlc.buyerAddress, deadline |-> htlc.deadline,
     btcTxid |-> {}]

HeldAll(m, keys) == [i \in 1 .. Len(keys) |-> Held(m[keys[i]])]

\* The objects under keys leave the map m (delete, or set on a key that is
\* present): the arrays of the second loops keep them as they are.
Detach(calls, m, keys) ==
    LET detach(htlc) ==
            IF htlc.hashH \in keys /\ htlc.btcTxid = {}
            THEN [htlc EXCEPT !.btcTxid = m[htlc.hashH].btcTxid]
            ELSE htlc
        detachRest(task) ==
            IF task.kind = "checkForSecretReveal" /\ task.rest # << >>
            THEN [task EXCEPT !.rest = [i \in 1 .. Len(task.rest) |->
                                            detach(task.rest[i])]]
            ELSE task
    IN  BagOfAll(detachRest, calls)

\* The calls suspended after a step: those of before without the one that
\* has returned, and the ones the step has started.
Without(calls, task) == calls (-) SetToBag({task})

\* The ledger has answered the call of task.
Answered(calls, task, answer) ==
    Without(calls, task) (+) SetToBag({[task EXCEPT !.answer = << answer >>]})

\* forceClaimAsset / forceRefundAsset name a token, not a swap.
NoHTLC(tokenId) ==
    [hashH |-> 0, tokenId |-> tokenId, priceBTC |-> 0, sellerAddress |-> "",
     buyerAddress |-> ZERO, deadline |-> 0]

\* The calls of forceClaimAsset and forceRefundAsset whose call of the
\* bridge has returned: each goes on after its await, one hop of the
\* promise queue later.  rest holds the place of the call in that queue.
Resuming ==
    {task \in BagToSet(tasks) :
        task.kind \in {"forceClaimAsset", "forceRefundAsset"}}

\* The call of a force method is put at the end of the queue.
Resumes(task, kind) ==
    [task EXCEPT !.kind = kind, !.rest = << Cardinality(Resuming) + 1 >>]

\* The first call of the queue has gone on: the others move up.
Resumed(task) ==
    BagOfAll(LAMBDA call :
                 IF call.kind \in {"forceClaimAsset", "forceRefundAsset"}
                 THEN [call EXCEPT !.rest = << call.rest[1] - 1 >>] ELSE call,
             Without(tasks, task))

\* The promise queue is empty.  The handler of a timer, of a message of the
\* socket or of a request starts in a turn of the event loop of its own,
\* after the calls that were to go on in the turn before.
TurnEnded == Resuming = {}

\* HTLCDetector.handleHTLCDetected up to its await: the saleOpen it submits.
handleHTLCDetected(htlc) ==
    LET assetExpiry == htlc.deadline - timeoutBufferSeconds
    IN  IF assetExpiry <= now THEN {}
        ELSE {Task("saleOpen", "asset_escrow", htlc, {}, {}, assetExpiry)}

\* HTLCDetector.handleSecretRevealed up to its await, on the map m
\* (autoProcessClaims is true): the claim it submits.
handleSecretRevealed(m, hashH, secret) ==
    IF hashH \notin DOMAIN m THEN {}
    ELSE {Task("claim", "asset_claim", m[hashH], {}, {secret}, 0)}

\* HTLCDetector.handleHTLCExpired up to its first await.
handleHTLCExpired(htlc) ==
    {Task("isInEscrow", "htlc_expiry", htlc, {}, {}, 0)}

-----------------------------------------------------------------------------
(* HTLCDetector.registerSwap -> BitcoinWatcher.addHTLCWatch -> addHTLC *)

registerSwap(tokenId, hashH, priceBTC, sellerAddress, buyerAddress, deadline) ==
    /\ TurnEnded
    /\ pendingHTLCs' = addHTLC([hashH |-> hashH, tokenId |-> tokenId,
                                priceBTC |-> priceBTC,
                                sellerAddress |-> sellerAddress,
                                buyerAddress |-> buyerAddress,
                                deadline |-> deadline])
    /\ keyOrder' = IF hashH \in DOMAIN pendingHTLCs THEN keyOrder
                   ELSE Append(keyOrder, hashH)
    /\ tasks' = Detach(tasks, pendingHTLCs, {hashH} \cap DOMAIN pendingHTLCs)
    /\ UNCHANGED <<ledgerVars, now, processedTxs, btcVars, revealed, util, service, emits>>

-----------------------------------------------------------------------------
(* HTLCManager.removeHTLC(hashH): return this.pendingHTLCs.delete(hashH),  *)
(* whatever the status and the age of the swap; here for a key that is in  *)
(* the Map (for any other key the call changes nothing and returns false). *)
(* No code of the repository calls it and the watcher keeps its manager    *)
(* private, so that no action of the specifications is a call of it.       *)

removeHTLC(hashH) ==
    /\ hashH \in DOMAIN pendingHTLCs
    /\ pendingHTLCs' = [h \in DOMAIN pendingHTLCs \ {hashH} |-> pendingHTLCs[h]]
    /\ keyOrder' = SelectSeq(keyOrder, LAMBDA h : h # hashH)
    /\ tasks' = Detach(tasks, pendingHTLCs, {hashH})
    /\ UNCHANGED <<ledgerVars, now, processedTxs, btcVars, revealed, util, service, emits>>

-----------------------------------------------------------------------------
(* BitcoinWatcher.pollForUpdates: one async function.  Its first loop    *)
(* awaits checkAddressForHTLC for each swap that was waiting when the     *)
(* poll started, one after the other; its second loop, entered when the   *)
(* first is done, awaits checkForSecretReveal for each swap that is then  *)
(* asset_locked with a btcTxid.  A poll is suspended in one call at a     *)
(* time; polls start every pollInterval whether or not the previous one   *)
(* has returned, and go on after stop().  The watcher calls               *)
(* updateHTLCStatus with btc_locked, claimed and expired only and no      *)
(* other code writes a status, so that no swap is asset_locked, the       *)
(* second loop finds none, and no action of the specifications is a       *)
(* return of checkForSecretReveal.                                        *)

PollTask(kind, htlc, btcTxid, rest) ==
    [Task(kind, "poll", htlc, btcTxid, {}, 0) EXCEPT !.rest = rest]

\* The second loop on the map m, up to its first await.
secondLoop(m) ==
    LET lockedHTLCs == SelectSeq(getAllHTLCs,
                           LAMBDA h : /\ m[h].status = "asset_locked"
                                      /\ m[h].btcTxid # {})
    IN  IF lockedHTLCs = << >> THEN EmptyBag
        ELSE SetToBag({PollTask("checkForSecretReveal", m[Head(lockedHTLCs)],
                                m[Head(lockedHTLCs)].btcTxid,
                                HeldAll(m, Tail(lockedHTLCs)))})

\* pollForUpdates up to its first await: the call it is suspended in.
firstLoop ==
    LET waitingHTLCs == getHTLCsWaitingForBTC
    IN  IF waitingHTLCs = << >> THEN secondLoop(pendingHTLCs)
        ELSE SetToBag({PollTask("checkAddressForHTLC",
                                pendingHTLCs[Head(waitingHTLCs)], {},
                                HeldAll(pendingHTLCs, Tail(waitingHTLCs)))})

\* pollForUpdates after the call of task has returned, on the map m: the
\* next call of the loop, or the second loop after the first.
nextAwait(task, m) ==
    IF task.rest = << >>
    THEN IF task.kind = "checkAddressForHTLC" THEN secondLoop(m) ELSE EmptyBag
    ELSE LET htlc == Head(task.rest)
             btcTxid == IF task.kind = "checkAddressForHTLC" THEN {}
                        ELSE IF htlc.btcTxid # {} THEN htlc.btcTxid
                        ELSE m[htlc.hashH].btcTxid
         IN  SetToBag({PollTask(task.kind, htlc, btcTxid, Tail(task.rest))})

pollForUpdates ==
    /\ TurnEnded
    /\ firstLoop # EmptyBag
    /\ tasks' = tasks (+) firstLoop
    /\ BagCardinality(tasks') <= MaxTasks
    /\ UNCHANGED <<ledgerVars, now, pendingHTLCs, keyOrder, processedTxs, btcVars, revealed, util, service, emits>>

\* checkAddressForHTLC after the await of fetch: ok is response.ok.  The
\* loop of the poll goes on in the same turn.
checkAddressForHTLC(task, ok) ==
    LET transactions == AddressTxs(task.sellerAddress)
        matches == {tx \in transactions :
                        /\ tx.txid \notin processedTxs
                        /\ validateHTLCMatch(task, tx).valid}
    IN  /\ BagIn(task, tasks) /\ task.kind = "checkAddressForHTLC"
        /\ IF ok /\ matches # {}
           THEN \E tx \in matches :
                    /\ pendingHTLCs' = updateHTLCStatus(pendingHTLCs, task.hashH,
                                          "btc_locked", [btcTxid |-> {tx.txid}])
                    /\ processedTxs' = processedTxs \cup {tx.txid}
                    /\ tasks' = Without(tasks, task)
                          (+) SetToBag(handleHTLCDetected(task))
                          (+) nextAwait(task, pendingHTLCs')
           ELSE /\ tasks' = Without(tasks, task) (+) nextAwait(task, pendingHTLCs)
                /\ UNCHANGED <<pendingHTLCs, keyOrder, processedTxs>>
        /\ BagCardinality(tasks') <= MaxTasks
        /\ UNCHANGED <<ledgerVars, now, keyOrder, btcVars, revealed, util, service, emits>>

\* checkForSecretReveal after its awaits: ok is response.ok.
checkForSecretReveal(task, ok) ==
    LET spends == UNION {Outspends(txid) : txid \in task.btcTxid}
        reveals == {spendTx \in spends :
                        extractSecretFromTransaction(spendTx) # {}}
    IN  /\ BagIn(task, tasks) /\ task.kind = "checkForSecretReveal"
        /\ IF ok /\ reveals # {}
           THEN \E spendTx \in reveals :
                \E secret \in extractSecretFromTransaction(spendTx) :
                    /\ pendingHTLCs' = updateHTLCStatus(pendingHTLCs, task.hashH,
                                          "claimed", [secretS |-> {secret}])
                    /\ tasks' = Without(tasks, task)
                          (+) SetToBag(handleSecretRevealed(pendingHTLCs', task.hashH, secret))
                          (+) nextAwait(task, pendingHTLCs')
           ELSE /\ tasks' = Without(tasks, task) (+) nextAwait(task, pendingHTLCs)
                /\ UNCHANGED pendingHTLCs
        /\ BagCardinality(tasks') <= MaxTasks
        /\ UNCHANGED <<ledgerVars, now, keyOrder, processedTxs, btcVars, revealed, util, service, emits>>

\* processTransaction: a transaction pushed over the WebSocket.
processTransaction(tx) ==
    LET involvedAddresses == {tx.vout[i].address : i \in DOMAIN tx.vout}
        relevantHTLCs == {h \in Range(getHTLCsWaitingForBTC) :
                            pendingHTLCs[h].sellerAddress \in involvedAddresses}
        detected == {h \in relevantHTLCs :
                        validateHTLCMatch(pendingHTLCs[h], tx).valid}
    IN  /\ TurnEnded
        /\ tx.txid \notin processedTxs
        /\ pendingHTLCs' =
              [h \in DOMAIN pendingHTLCs |->
                  IF h \in detected
                  THEN updateHTLCStatus(pendingHTLCs, h, "btc_locked",
                                        [btcTxid |-> {tx.txid}])[h]
                  ELSE pendingHTLCs[h]]
        /\ tasks' = tasks (+) SetToBag(UNION {handleHTLCDetected(pendingHTLCs[h]) :
                                                h \in detected})
        /\ BagCardinality(tasks') <= MaxTasks
        /\ processedTxs' = processedTxs \cup {tx.txid}
        /\ UNCHANGED <<ledgerVars, now, keyOrder, btcVars, revealed, util, service, emits>>

\* The 60 s timer of start(): htlcManager.cleanup(); checkExpiredHTLCs().
checkExpiredHTLCs ==
    LET kept == cleanup(pendingHTLCs)
        expiredHTLCs == getExpiredHTLCs(kept)
    IN  /\ TurnEnded
        /\ pendingHTLCs' =
              [h \in DOMAIN kept |->
                  IF h \in expiredHTLCs
                  THEN updateHTLCStatus(kept, h, "expired", NoExtra)[h]
                  ELSE kept[h]]
        /\ keyOrder' = SelectSeq(keyOrder, LAMBDA h : h \in DOMAIN kept)
        /\ tasks' = Detach(tasks, pendingHTLCs, DOMAIN pendingHTLCs \ DOMAIN kept)
                        (+) SetToBag(UNION {handleHTLCExpired(kept[h]) :
                                                h \in expiredHTLCs})
        /\ BagCardinality(tasks') <= MaxTasks
        /\ UNCHANGED <<ledgerVars, now, processedTxs, btcVars, revealed, util, service, emits>>

-----------------------------------------------------------------------------
(* EVMBridge: the ledger calls of the coordinator, sent from Wallet.       *)

\* The node evaluates the view isInEscrow(tokenId) the bridge has called,
\* on the ledger as it is then.
isInEscrowAnswered(task) ==
    /\ BagIn(task, tasks) /\ task.kind = "isInEscrow" /\ task.answer = << >>
    /\ minting = << >>
    /\ tasks' = Answered(tasks, task, isInEscrowView(task.tokenId))
    /\ UNCHANGED <<ledgerVars, now, pendingHTLCs, keyOrder, processedTxs, btcVars, revealed, util, service, emits>>

\* handleHTLCExpired after await isInEscrow, with the answer that was
\* computed: ok is false when the provider fails.  EVMBridge.isInEscrow
\* catches that and the revert of the view and answers false.
isInEscrow(task, ok) ==
    /\ BagIn(task, tasks) /\ task.kind = "isInEscrow"
    /\ ok => task.answer # << >>
    /\ tasks' = Without(tasks, task)
          (+) SetToBag(IF ok /\ task.answer = << Returns(TRUE) >>
                       THEN {Task("refund", "htlc_expiry", task, {}, {}, 0)}
                       ELSE {})
    /\ UNCHANGED <<ledgerVars, now, pendingHTLCs, keyOrder, processedTxs, btcVars, revealed, util, service, emits>>

\* The ledger includes the saleOpen the bridge has submitted (sent with a
\* gasLimit, so without estimateGas: a reverting transaction is mined too).
saleOpenIncluded(task) ==
    /\ BagIn(task, tasks) /\ task.kind = "saleOpen" /\ task.answer = << >>
    /\ saleOpen(Wallet, task.tokenId, task.buyerAddress, task.hashH,
                task.expiryTimestamp, task.priceBTC)
    /\ tasks' = Answered(tasks, task,
                    Receipt(IF saleOpenError(Wallet, task.tokenId, task.buyerAddress,
                                             task.hashH, task.expiryTimestamp,
                                             task.priceBTC) = "" THEN 1 ELSE 0))
    /\ UNCHANGED <<pendingHTLCs, keyOrder, processedTxs, btcVars, revealed, util, service, emits>>

\* openSaleEscrow after await tx.wait(): ok is false when the provider
\* fails while waiting.  It emits 'asset_escrowed', which the detector only
\* logs, or throws, and handleHTLCDetected logs and emits 'error'.
openSaleEscrow(task, ok) ==
    /\ BagIn(task, tasks) /\ task.kind = "saleOpen" /\ task.answer # << >>
    /\ tasks' = Without(tasks, task)
    /\ UNCHANGED <<ledgerVars, now, pendingHTLCs, keyOrder, processedTxs, btcVars, revealed, util, service, emits>>

\* HTLCDetectorEvents 'swap_completed' and 'swap_refunded'
swap_completed(tokenId, secret) ==
    [type |-> "swap_completed", tokenId |-> tokenId, secret |-> secret]
swap_refunded(tokenId, reason) ==
    [type |-> "swap_refunded", tokenId |-> tokenId, reason |-> reason]

\* The ledger includes the claim the bridge has submitted; an accepted
\* claim publishes its secret in SaleSettle.
claimIncluded(task) ==
    /\ BagIn(task, tasks) /\ task.kind = "claim" /\ task.answer = << >>
    /\ \E secret \in task.secretS :
        /\ claim(Wallet, task.tokenId, secret)
        /\ revealed' = IF claimError(Wallet, task.tokenId, secret) = ""
                       THEN revealed \cup {secret} ELSE revealed
        /\ tasks' = Answered(tasks, task,
                        Receipt(IF claimError(Wallet, task.tokenId, secret) = ""
                                THEN 1 ELSE 0))
    /\ UNCHANGED <<pendingHTLCs, keyOrder, processedTxs, btcVars, util, service, emits>>

\* claimAsset after await tx.wait(): ok is false when the provider fails
\* while waiting.  It emits 'asset_claimed', which handleAssetClaimed turns
\* into swap_completed, and returns to its caller, which goes on a hop
\* later.  tx.wait() throws for a reverted transaction: nothing is emitted,
\* and the caller logs and, in forceClaimAsset, throws again.
claimAsset(task, ok) ==
    /\ BagIn(task, tasks) /\ task.kind = "claim" /\ task.answer # << >>
    /\ IF ok /\ task.answer = << Receipt(1) >>
       THEN /\ \E secret \in task.secretS :
                  emits' = << swap_completed(task.tokenId, secret) >>
            /\ tasks' = Without(tasks, task)
                  (+) SetToBag(IF task.context = "force"
                               THEN {Resumes(task, "forceClaimAsset")} ELSE {})
       ELSE /\ emits' = << >>
            /\ tasks' = Without(tasks, task)
    /\ UNCHANGED <<ledgerVars, now, pendingHTLCs, keyOrder, processedTxs, btcVars, revealed, util, service>>

\* forceClaimAsset after await this.evmBridge.claimAsset(tokenId, secret):
\* this.emit('swap_completed', tokenId, secret).
forceClaimAssetResumes(task) ==
    /\ BagIn(task, tasks) /\ task.kind = "forceClaimAsset"
    /\ task.rest = << 1 >>
    /\ \E secret \in task.secretS :
          emits' = << swap_completed(task.tokenId, secret) >>
    /\ tasks' = Resumed(task)
    /\ UNCHANGED <<ledgerVars, now, pendingHTLCs, keyOrder, processedTxs, btcVars, revealed, util, service>>

\* The ledger includes the refund the bridge has submitted.
refundIncluded(task) ==
    /\ BagIn(task, tasks) /\ task.kind = "refund" /\ task.answer = << >>
    /\ refund(Wallet, task.tokenId)
    /\ tasks' = Answered(tasks, task,
                    Receipt(IF refundError(Wallet, task.tokenId) = "" THEN 1 ELSE 0))
    /\ UNCHANGED <<pendingHTLCs, keyOrder, processedTxs, btcVars, revealed, util, service, emits>>

\* refundAsset after await tx.wait(): it emits 'asset_refunded', which
\* handleAssetRefunded turns into swap_refunded with 'Timeout refund', and
\* returns to its caller.
refundAsset(task, ok) ==
    /\ BagIn(task, tasks) /\ task.kind = "refund" /\ task.answer # << >>
    /\ IF ok /\ task.answer = << Receipt(1) >>
       THEN /\ emits' = << swap_refunded(task.tokenId, "Timeout refund") >>
            /\ tasks' = Without(tasks, task)
                  (+) SetToBag(IF task.context = "force"
                               THEN {Resumes(task, "forceRefundAsset")} ELSE {})
       ELSE /\ emits' = << >>
            /\ tasks' = Without(tasks, task)
    /\ UNCHANGED <<ledgerVars, now, pendingHTLCs, keyOrder, processedTxs, btcVars, revealed, util, service>>

\* forceRefundAsset after await this.evmBridge.refundAsset(tokenId):
\* this.emit('swap_refunded', tokenId, 'Manual refund').
forceRefundAssetResumes(task) ==
    /\ BagIn(task, tasks) /\ task.kind = "forceRefundAsset"
    /\ task.rest = << 1 >>
    /\ emits' = << swap_refunded(task.tokenId, "Manual refund") >>
    /\ tasks' = Resumed(task)
    /\ UNCHANGED <<ledgerVars, now, pendingHTLCs, keyOrder, processedTxs, btcVars, revealed, util, service>>

\* await contract.saleOpen / claim / refund rejects: the provider fails
\* before the transaction is sent.  The catch blocks log and emit 'error',
\* nothing is retried.
submissionFails(task) ==
    /\ BagIn(task, tasks) /\ task.kind \in {"saleOpen", "claim", "refund"}
    /\ task.answer = << >>
    /\ tasks' = Without(tasks, task)
    /\ UNCHANGED <<ledgerVars, now, pendingHTLCs, keyOrder, processedTxs, btcVars, revealed, util, service, emits>>

\* HTLCDetector.forceClaimAsset up to its await
forceClaimAsset(tokenId, secret) ==
    /\ TurnEnded
    /\ tasks' = tasks (+) SetToBag({Task("claim", "force", NoHTLC(tokenId), {}, {secret}, 0)})
    /\ BagCardinality(tasks') <= MaxTasks
    /\ UNCHANGED <<ledgerVars, now, pendingHTLCs, keyOrder, processedTxs, btcVars, revealed, util, service, emits>>

\* HTLCDetector.forceRefundAsset up to its await
forceRefundAsset(tokenId) ==
    /\ TurnEnded
    /\ tasks' = tasks (+) SetToBag({Task("refund", "force", NoHTLC(tokenId), {}, {}, 0)})
    /\ BagCardinality(tasks') <= MaxTasks
    /\ UNCHANGED <<ledgerVars, now, pendingHTLCs, keyOrder, processedTxs, btcVars, revealed, util, service, emits>>

-----------------------------------------------------------------------------
(* The Bitcoin HTLC (createHTLCScript): the funding transaction pays the   *)
(* watched address under <hashH, locktime>; the receiver spends it with    *)
(* the preimage, the sender after the locktime.                            *)

FundingTx(f, vout) ==
    [txid |-> f, vout |-> vout, vin |-> << [txid |-> 0, witness |-> <<SIG, PUBKEY>>] >>]

SpendTx(f, address, witness) ==
    [txid |-> SpendId(f),
     vout |-> << [address |-> address, value |-> 0] >>,
     vin |-> << [txid |-> f, witness |-> witness] >>]

fundHTLC(f, vout, hashH, locktime) ==
    /\ f \notin DOMAIN btcHTLC
    /\ btcTxs' = btcTxs \cup {FundingTx(f, vout)}
    /\ btcHTLC' = [g \in DOMAIN btcHTLC \cup {f} |->
                      IF g = f
                      THEN [hashH |-> hashH, locktime |-> locktime,
                            state |-> "unspent", confirmations |-> 0]
                      ELSE btcHTLC[g]]
    /\ UNCHANGED <<ledgerVars, now, watcherVars, revealed, util, service, emits>>

\* OP_IF OP_SHA256 <hash> OP_EQUALVERIFY ..: the receiver's spend.
claimHTLC(f, secretS, witness) ==
    /\ f \in DOMAIN btcHTLC /\ btcHTLC[f].state = "unspent"
    /\ SHA256(secretS) = btcHTLC[f].hashH
    /\ btcTxs' = btcTxs \cup {SpendTx(f, "seller wallet", witness)}
    /\ btcHTLC' = [btcHTLC EXCEPT ![f].state = "claimed"]
    /\ revealed' = revealed \cup {secretS}
    /\ UNCHANGED <<ledgerVars, now, watcherVars, util, service, emits>>

\* OP_ELSE <locktime> OP_CHECKLOCKTIMEVERIFY ..: the sender's spend.
refundHTLC(f) ==
    /\ f \in DOMAIN btcHTLC /\ btcHTLC[f].state = "unspent"
    /\ now >= btcHTLC[f].locktime
    /\ btcTxs' = btcTxs \cup {SpendTx(f, "buyer wallet", RefundWitness)}
    /\ btcHTLC' = [btcHTLC EXCEPT ![f].state = "refunded"]
    /\ UNCHANGED <<ledgerVars, now, watcherVars, revealed, util, service, emits>>

\* A block is mined: every transaction gains a confirmation.  The watcher
\* gets the 'block' message and runs recheckPendingHTLCs, which fetches the
\* funding transactions of the btc_locked swaps and logs those that have
\* config.confirmations confirmations; it assigns nothing.
mineBlock ==
    /\ \E f \in DOMAIN btcHTLC : btcHTLC[f].confirmations < MaxConfirmations
    /\ btcHTLC' = [f \in DOMAIN btcHTLC |->
                      [btcHTLC[f] EXCEPT !.confirmations =
                          IF @ < MaxConfirmations THEN @ + 1 ELSE @]]
    /\ UNCHANGED <<ledgerVars, now, watcherVars, btcTxs, revealed, util, service, emits>>

-----------------------------------------------------------------------------
(* Inputs of the calls *)

TitleLens == {0, 1}
CategoryLens == {0, 1}
JsonLens == {0}
NoteLens == {0}
ExpiryOffsets == {MIN_ESCROW_DURATION, MIN_ESCROW_DURATION + 1}

\* The offsets on either side of both limits of saleOpen, and the prices on
\* either side of its price check.
BoundaryOffsets ==
    {MIN_ESCROW_DURATION - 1, MIN_ESCROW_DURATION, MIN_ESCROW_DURATION + 1,
     MAX_ESCROW_DURATION, MAX_ESCROW_DURATION + 1}
BoundaryPrices == {0, 1, PRICE}

\* The hashes Bitcoin outputs are locked under, and those swaps are
\* registered under: swap k uses the hash of secret k.
SwapKeys == {SHA256(s) : s \in Secrets}
SwapSecrets == 1 .. MaxSwaps
RegisteredKeys == {SHA256(s) : s \in SwapSecrets}

\* Registered deadlines: the earliest the coordinator still opens an escrow
\* for at time 0 (deadline - timeoutBufferSeconds > MIN_ESCROW_DURATION), and
\* one whose escrow it skips.
Deadline == timeoutBufferSeconds + MIN_ESCROW_DURATION + 1
Deadlines == {timeoutBufferSeconds, Deadline}

\* Funding outputs, in tenths of a satoshi: the price, and one satoshi short.
FundingVouts ==
    { << [address |-> SellerBtc, value |-> 10 * PRICE] >>,
      << [address |-> SellerBtc, value |-> 10 * (PRICE - 1)] >> }

\* Funding transactions as the observer may meet them: the price, one
\* satoshi short, twice the price, and one satoshi short to the seller with
\* a change output back to the payer.
ChangeBtc == "tb1qchange"
ObservedVouts ==
    FundingVouts \cup
    { << [address |-> SellerBtc, value |-> 10 * (2 * PRICE)] >>,
      << [address |-> SellerBtc, value |-> 10 * (PRICE - 1)],
         [address |-> ChangeBtc, value |-> 10 * 1] >> }

\* The instants the clock visits.
LedgerInstants == {0, MIN_ESCROW_DURATION, MIN_ESCROW_DURATION + 1}
Instants == {0, MIN_ESCROW_DURATION + 1, Deadline, btcTimelock(Deadline)}

\* The seller draws the secrets; everyone else knows the published ones.
Knows(account) == IF account = "seller" THEN Secrets ELSE revealed

-----------------------------------------------------------------------------
(* The state after deployment and construction *)

\* No shared utility has been called.
NoCall == [op |-> "none", at |-> 0]

\* BitcoinWatcherConfig.maxRetries as index.ts sets it
maxRetries == 5

\* No socket but the one this.ws refers to.
NoSockets == [connecting |-> 0, open |-> 0, closing |-> 0, aborting |-> 0]

\* The watcher as main() leaves it: constructed, start() has returned, the
\* WebSocket is open; the poll interval and the 60 s cleanup interval run.
\* ws is the state of the socket this.ws refers to; detached counts the
\* sockets connectWebSocket has made that this.ws no longer refers to, each
\* with its own handlers; reconnect counts the pending reconnect timeouts.
Started ==
    [isRunning |-> TRUE, pollTimer |-> TRUE, ws |-> "open",
     reconnect |-> 0, retryCount |-> 0, detached |-> NoSockets]

Init ==
    /\ owners = [t \in TokenIds |-> ZERO]
    /\ tokenApprovals = [t \in TokenIds |-> ZERO]
    /\ operatorApprovals = {}
    /\ assetMetadata = [t \in TokenIds |-> EmptyMetadata]
    /\ saleEscrows = [t \in TokenIds |-> EmptyEscrow]
    /\ log = << >>
    /\ ret = Ret("constructor", ZERO, 0)
    /\ now = 0
    /\ pendingHTLCs = [h \in {} |-> {}]
    /\ keyOrder = << >>
    /\ processedTxs = {}
    /\ tasks = EmptyBag
    /\ btcTxs = {}
    /\ btcHTLC = [f \in {} |-> {}]
    /\ revealed = {}
    /\ util = NoCall
    /\ service = Started
    /\ emits = << >>
    /\ minting = << >>

offLedger == <<watcherVars, btcVars>>

-----------------------------------------------------------------------------
(* The ledger on its own: any account calls any function with any input. *)

CallMint ==
    /\ \E caller \in Addr, tokenId \in {0} \cup TokenIds, title \in TitleLens,
          category \in CategoryLens, json \in JsonLens, note \in NoteLens :
           mint(caller, tokenId, title, category, json, json, note)
    /\ UNCHANGED <<offLedger, revealed, util, service, emits>>

\* onERC721Received returns to the mint that called it.
CallbackReturns ==
    /\ mintAfterCallback
    /\ UNCHANGED <<offLedger, revealed, util, service, emits>>

CallSaleOpen ==
    /\ \E caller \in Addr, tokenId \in TokenIds, buyer \in Addr \cup {ZERO},
          hashH \in Hashes, d \in ExpiryOffsets, priceBTC \in Prices :
           saleOpen(caller, tokenId, buyer, hashH, now + d, priceBTC)
    /\ UNCHANGED <<offLedger, revealed, util, service, emits>>

CallClaim ==
    /\ \E caller \in Addr, tokenId \in TokenIds, secretS \in Bytes32 :
           claim(caller, tokenId, secretS)
    /\ UNCHANGED <<offLedger, revealed, util, service, emits>>

CallRefund ==
    /\ \E caller \in Addr, tokenId \in TokenIds : refund(caller, tokenId)
    /\ UNCHANGED <<offLedger, revealed, util, service, emits>>

CallTransfer ==
    /\ \E form \in TransferForms, caller \in Addr, from \in Addr,
          to \in Addr \cup {ZERO}, tokenId \in TokenIds :
           transferFrom(form, caller, from, to, tokenId)
    /\ UNCHANGED <<offLedger, revealed, util, service, emits>>

\* The log has room for another Approval or ApprovalForAll.
ApprovalsLeft ==
    Cardinality({i \in DOMAIN log :
                    log[i].type \in {"Approval", "ApprovalForAll"}}) < MaxApprovals

CallApprove ==
    /\ ApprovalsLeft
    /\ \E caller \in Addr, to \in Addr \cup {ZERO}, tokenId \in TokenIds :
           approve(caller, to, tokenId)
    /\ UNCHANGED <<offLedger, revealed, util, service, emits>>

CallSetApprovalForAll ==
    /\ ApprovalsLeft
    /\ \E caller \in Addr, operator \in Addr \cup {ZERO}, approved \in BOOLEAN :
           setApprovalForAll(caller, operator, approved)
    /\ UNCHANGED <<offLedger, revealed, util, service, emits>>

\* Time passes.
Tick(instants) ==
    /\ minting = << >>
    /\ \E t \in instants : t > now /\ now' = t
    /\ UNCHANGED <<ledgerVars, offLedger, revealed, util, service, emits>>

TickLedger == Tick(LedgerInstants)

NextLedger ==
    \/ CallMint
    \/ CallbackReturns
    \/ CallSaleOpen
    \/ CallClaim
    \/ CallRefund
    \/ CallTransfer
    \/ CallApprove
    \/ CallSetApprovalForAll
    \/ TickLedger

SpecLedger == Init /\ [][NextLedger]_vars

-----------------------------------------------------------------------------
(* The sale escrow at the limits of saleOpen: any account opens a sale    *)
(* with any buyer, hash and price and an expiry on either side of each    *)
(* limit; escrows are resolved by claim and refund.                       *)

CallSaleOpenAtLimits ==
    /\ \E caller \in Addr, tokenId \in TokenIds, buyer \in Addr \cup {ZERO},
          hashH \in Hashes, d \in BoundaryOffsets, priceBTC \in BoundaryPrices :
           saleOpen(caller, tokenId, buyer, hashH, now + d, priceBTC)
    /\ UNCHANGED <<offLedger, revealed, util, service, emits>>

NextSaleOpen ==
    \/ CallMint
    \/ CallbackReturns
    \/ CallSaleOpenAtLimits
    \/ CallClaim
    \/ CallRefund
    \/ TickLedger

SpecSaleOpen == Init /\ [][NextSaleOpen]_vars

-----------------------------------------------------------------------------
(* The whole system: seller, buyer and a third account on the ledger and  *)
(* on Bitcoin, the operator, and the coordinator.                         *)

PartyMint ==
    /\ \E tokenId \in TokenIds : mint("seller", tokenId, 1, 1, 0, 0, 0)
    /\ UNCHANGED <<offLedger, revealed, util, service, emits>>

PartySaleOpen ==
    /\ \E caller \in Addr, tokenId \in TokenIds, hashH \in RegisteredKeys :
           saleOpen(caller, tokenId, "buyer", hashH,
                    now + MIN_ESCROW_DURATION + 1, PRICE)
    /\ UNCHANGED <<offLedger, revealed, util, service, emits>>

\* An accepted claim publishes its secret in SaleSettle.
PartyClaim ==
    /\ \E caller \in Addr, tokenId \in TokenIds :
       \E secretS \in Knows(caller) :
           /\ claim(caller, tokenId, secretS)
           /\ revealed' = IF claimError(caller, tokenId, secretS) = ""
                          THEN revealed \cup {secretS} ELSE revealed
    /\ UNCHANGED <<offLedger, util, service, emits>>

PartyRefund ==
    /\ \E caller \in Addr, tokenId \in TokenIds : refund(caller, tokenId)
    /\ UNCHANGED <<offLedger, revealed, util, service, emits>>

BuyerFunds ==
    \E f \in FundingIds, vout \in FundingVouts, hashH \in SwapKeys :
        fundHTLC(f, vout, hashH, btcTimelock(Deadline))

SellerClaimsBTC ==
    \E f \in FundingIds, secretS \in Knows("seller") :
    \E witness \in ClaimWitnesses(secretS) :
        claimHTLC(f, secretS, witness)

BuyerRefundsBTC == \E f \in FundingIds : refundHTLC(f)

RegisterSwap ==
    \E tokenId \in TokenIds, hashH \in RegisteredKeys, deadline \in Deadlines :
        registerSwap(tokenId, hashH, PRICE, SellerBtc, "buyer", deadline)

\* The poll interval fires.
PollFires == service.pollTimer /\ pollForUpdates

CheckAddressReturns ==
    \E task \in BagToSet(tasks), ok \in BOOLEAN : checkAddressForHTLC(task, ok)

\* A 'utx' message arrives on a socket that is open or closing, the one
\* this.ws refers to or another: each socket has its own 'message' handler,
\* which looks neither at the socket's state nor at isRunning.
WebSocketPush ==
    /\ \/ service.ws = "open"
       \/ service.detached.open > 0
       \/ service.detached.closing > 0
    /\ \E tx \in btcTxs : processTransaction(tx)

ExpiryTimer == checkExpiredHTLCs

\* The node answers an eth_call of the bridge.
LedgerAnswers == \E task \in BagToSet(tasks) : isInEscrowAnswered(task)

IsInEscrowReturns == \E task \in BagToSet(tasks), ok \in BOOLEAN : isInEscrow(task, ok)

LedgerIncludes ==
    \E task \in BagToSet(tasks) :
        \/ saleOpenIncluded(task)
        \/ claimIncluded(task)
        \/ refundIncluded(task)

\* tx.wait() returns or rejects.
WaitReturns ==
    \E task \in BagToSet(tasks), ok \in BOOLEAN :
        \/ openSaleEscrow(task, ok)
        \/ claimAsset(task, ok)
        \/ refundAsset(task, ok)

SubmissionFails == \E task \in BagToSet(tasks) : submissionFails(task)

ForceClaim ==
    \E tokenId \in TokenIds, secret \in SwapSecrets :
        forceClaimAsset(tokenId, secret)

ForceRefund == \E tokenId \in TokenIds : forceRefundAsset(tokenId)

\* A force method goes on after the call of the bridge it awaited.
ForceClaimResumes == \E task \in BagToSet(tasks) : forceClaimAssetResumes(task)

ForceRefundResumes == \E task \in BagToSet(tasks) : forceRefundAssetResumes(task)

TickSystem == Tick(Instants)

Next ==
    \/ PartyMint
    \/ PartySaleOpen
    \/ PartyClaim
    \/ PartyRefund
    \/ BuyerFunds
    \/ SellerClaimsBTC
    \/ BuyerRefundsBTC
    \/ RegisterSwap
    \/ PollFires
    \/ CheckAddressReturns
    \/ WebSocketPush
    \/ ExpiryTimer
    \/ LedgerAnswers
    \/ IsInEscrowReturns
    \/ LedgerIncludes
    \/ WaitReturns
    \/ SubmissionFails
    \/ TickSystem

Spec == Init /\ [][Next]_vars

-----------------------------------------------------------------------------
(* The operator: forceClaimAsset and forceRefundAsset are called (POST    *)
(* /swap/:tokenId/claim and /refund, index.ts:112-132) for a token that   *)
(* one of the accounts minted, while the accounts open, claim and refund  *)
(* its escrow, and while swaps are registered for it.                     *)

\* The owner of the token sells it to any account.
OwnerSells ==
    /\ \E caller \in Addr, buyer \in Addr, tokenId \in TokenIds, hashH \in RegisteredKeys :
           saleOpen(caller, tokenId, buyer, hashH,
                    now + MIN_ESCROW_DURATION + 1, PRICE)
    /\ UNCHANGED <<offLedger, revealed, util, service, emits>>

RegisterOperated ==
    \E tokenId \in TokenIds, hashH \in RegisteredKeys :
        /\ hashH \notin DOMAIN pendingHTLCs
        /\ registerSwap(tokenId, hashH, PRICE, SellerBtc, "buyer", Deadline)

\* Any account mints the token for itself.
AccountMints ==
    /\ \E caller \in Addr, tokenId \in TokenIds : mint(caller, tokenId, 1, 1, 0, 0, 0)
    /\ UNCHANGED <<offLedger, revealed, util, service, emits>>

NextOperator ==
    \/ AccountMints
    \/ CallbackReturns
    \/ OwnerSells
    \/ PartyClaim
    \/ PartyRefund
    \/ RegisterOperated
    \/ ForceClaim
    \/ ForceRefund
    \/ LedgerIncludes
    \/ WaitReturns
    \/ ForceClaimResumes
    \/ ForceRefundResumes
    \/ SubmissionFails
    \/ TickSystem

SpecOperator == Init /\ [][NextOperator]_vars

-----------------------------------------------------------------------------
(* The opener: the coordinator hears of the funding of a swap on its      *)
(* socket and opens the escrow of the seller's token with its own key,    *)
(* the accounts open, claim and refund escrows of the token, and the      *)
(* operator calls forceClaimAsset for it.                                 *)

FundOperated ==
    \E f \in FundingIds, hashH \in RegisteredKeys :
        fundHTLC(f, << [address |-> SellerBtc, value |-> 10 * PRICE] >>,
                 hashH, btcTimelock(Deadline))

NextOpener ==
    \/ PartyMint
    \/ PartySaleOpen
    \/ PartyClaim
    \/ PartyRefund
    \/ RegisterOperated
    \/ FundOperated
    \/ WebSocketPush
    \/ ForceClaim
    \/ LedgerIncludes
    \/ WaitReturns
    \/ TickSystem

SpecOpener == Init /\ [][NextOpener]_vars

-----------------------------------------------------------------------------
(* The observer on its own: the coordinator, the Bitcoin chain and the    *)
(* seller's token, with every swap key registered on the one seller       *)
(* address and every shape of funding transaction.  The ledger is called  *)
(* by the coordinator alone.                                              *)

RegisterObserved ==
    \E tokenId \in TokenIds, hashH \in SwapKeys :
        registerSwap(tokenId, hashH, PRICE, SellerBtc, "buyer", Deadline)

FundObserved ==
    \E f \in FundingIds, vout \in ObservedVouts, hashH \in RegisteredKeys :
        fundHTLC(f, vout, hashH, btcTimelock(Deadline))

MineBlock == mineBlock

ObserverLedgerIncludes ==
    \E task \in BagToSet(tasks) :
        \/ saleOpenIncluded(task)
        \/ refundIncluded(task)

ObserverWaitReturns ==
    \E task \in BagToSet(tasks), ok \in BOOLEAN :
        \/ openSaleEscrow(task, ok)
        \/ refundAsset(task, ok)

NextObserver ==
    \/ PartyMint
    \/ RegisterObserved
    \/ FundObserved
    \/ MineBlock
    \/ PollFires
    \/ CheckAddressReturns
    \/ WebSocketPush
    \/ ExpiryTimer
    \/ LedgerAnswers
    \/ IsInEscrowReturns
    \/ ObserverLedgerIncludes
    \/ ObserverWaitReturns
    \/ SubmissionFails
    \/ TickSystem

SpecObserver == Init /\ [][NextObserver]_vars

-----------------------------------------------------------------------------
(* Properties of the ledger, checked under SpecLedger *)

Last(seq) == seq[Len(seq)]

\* This step appends an event of the given type for the token as the last
\* event of the log.
Emitted(type, tokenId) ==
    /\ Len(log') > Len(log)
    /\ Last(log').type = type
    /\ Last(log').tokenId = tokenId

Count(type, tokenId) ==
    Cardinality({i \in DOMAIN log : log[i].type = type /\ log[i].tokenId = tokenId})

\* C4: while a token's escrow is active, transferFrom and both
\* safeTransferFrom are rejected with "Token is in escrow" for every caller
\* (owner or approved operator) and every recipient, and the owner and the
\* escrow record change only in a step that settles or refunds the escrow.
C4_NoTransferInEscrow ==
    [][vars' # vars => \A t \in TokenIds :
        InEscrow(t) =>
            /\ \A caller \in Addr, from \in Addr, to \in Addr :
                   transferError(caller, from, to, t) = "Token is in escrow"
            /\ (owners'[t] # owners[t] \/ saleEscrows'[t] # saleEscrows[t])
                   => (Emitted("SaleSettle", t) \/ Emitted("SaleRefund", t))
      ]_vars

\* An escrow is active and an operator other than the owner is approved.
C4_Witness ==
    /\ InEscrow(1)
    /\ tokenApprovals[1] = "other"
    /\ owners[1] = "seller"
    /\ transferError("other", "seller", "buyer", 1) = "Token is in escrow"

\* C5: claim is accepted exactly when the escrow is active, the caller is
\* the escrow's buyer, now < expiry and SHA-256(S) = hashH; an accepted claim
\* clears the escrow, makes the buyer the owner and emits SaleSettle.
C5_ClaimExactly ==
    [][vars' # vars => \A t \in TokenIds :
        /\ \A caller \in Addr, secretS \in Bytes32 :
               (claimError(caller, t, secretS) = "")
                   <=> /\ InEscrow(t)
                       /\ caller = saleEscrows[t].buyer
                       /\ now < saleEscrows[t].expiryTimestamp
                       /\ SHA256(secretS) = saleEscrows[t].hashH
        /\ Emitted("SaleSettle", t) =>
               /\ ret'.op = "claim"
               /\ claimError(ret'.caller, t, Last(log').secretS) = ""
               /\ ~saleEscrows'[t].active
               /\ owners'[t] = saleEscrows[t].buyer
               /\ Last(log').hashH = saleEscrows[t].hashH
        /\ (ret'.op = "claim" /\ saleEscrows'[t] # saleEscrows[t])
               => Emitted("SaleSettle", t)
      ]_vars

\* A claim has just been accepted.
C5_Witness ==
    /\ ret.op = "claim"
    /\ log # << >>
    /\ Last(log).type = "SaleSettle"
    /\ owners[1] = "buyer"
    /\ ~InEscrow(1)

\* C6: a claim rejected with Invalid secret, Only buyer can claim or Escrow
\* expired changes nothing (the ledger changes in a claim step only when the
\* claim passes every check), and whenever a claim is rejected with Escrow
\* expired, a refund by any caller is accepted.
C6_RejectedClaim ==
    [][vars' # vars => \A t \in TokenIds :
        /\ \A caller \in Addr, secretS \in Bytes32 :
               claimError(caller, t, secretS) = "Escrow expired"
                   => \A anyone \in Addr : refundError(anyone, t) = ""
        /\ (ret'.op = "claim" /\ ret'.tokenId = t
                /\ <<owners, tokenApprovals, operatorApprovals, assetMetadata,
                     saleEscrows, log>>'
                     # <<owners, tokenApprovals, operatorApprovals, assetMetadata,
                         saleEscrows, log>>)
               => claimError(ret'.caller, t, Last(log').secretS) = ""
      ]_vars

\* The escrow has expired unclaimed: the buyer's claim with the right secret
\* is rejected as expired and a third party may refund.
C6_Witness ==
    /\ InEscrow(1)
    /\ \E secretS \in Secrets :
           /\ SHA256(secretS) = saleEscrows[1].hashH
           /\ claimError(saleEscrows[1].buyer, 1, secretS) = "Escrow expired"
    /\ refundError("other", 1) = ""

\* C7: refund is accepted exactly when the escrow is active and the caller
\* is the escrow's seller or now >= expiry; a non-seller before expiry gets
\* "Cannot refund yet"; an accepted refund clears the escrow, leaves the
\* seller the owner and emits SaleRefund.
C7_RefundExactly ==
    [][vars' # vars => \A t \in TokenIds :
        /\ \A caller \in Addr :
               /\ (refundError(caller, t) = "")
                      <=> /\ InEscrow(t)
                          /\ \/ caller = saleEscrows[t].seller
                             \/ now >= saleEscrows[t].expiryTimestamp
               /\ (/\ InEscrow(t)
                   /\ caller # saleEscrows[t].seller
                   /\ now < saleEscrows[t].expiryTimestamp)
                      => refundError(caller, t) = "Cannot refund yet"
        /\ Emitted("SaleRefund", t) =>
               /\ ret'.op = "refund"
               /\ refundError(ret'.caller, t) = ""
               /\ ~saleEscrows'[t].active
               /\ owners'[t] = owners[t]
               /\ owners'[t] = saleEscrows[t].seller
        /\ (ret'.op = "refund" /\ saleEscrows'[t] # saleEscrows[t])
               => Emitted("SaleRefund", t)
      ]_vars

\* A refund has just been accepted.
C7_Witness ==
    /\ ret.op = "refund"
    /\ log # << >>
    /\ Last(log).type = "SaleRefund"
    /\ owners[1] = Last(log).a
    /\ ~InEscrow(1)

\* C8: every escrow is resolved at most once: the log holds at most one
\* SaleSettle or SaleRefund per SaleOpen, an escrow is active exactly when
\* its SaleOpen is not yet resolved, and once resolved both claim and refund
\* are rejected with "Token is not in escrow".
C8_ResolvedOnce ==
    \A t \in TokenIds :
        LET opens == Count("SaleOpen", t)
            resolutions == Count("SaleSettle", t) + Count("SaleRefund", t)
        IN  /\ resolutions <= opens
            /\ opens <= resolutions + 1
            /\ InEscrow(t) <=> opens = resolutions + 1
            /\ (Exists(t) /\ ~InEscrow(t)) =>
                   /\ \A caller \in Addr :
                          refundError(caller, t) = "Token is not in escrow"
                   /\ \A caller \in Addr, secretS \in Bytes32 :
                          claimError(caller, t, secretS) = "Token is not in escrow"

\* An escrow was refunded and the token escrowed again.
C8_Witness ==
    /\ Count("SaleOpen", 1) = 2
    /\ Count("SaleRefund", 1) = 1
    /\ InEscrow(1)

\* C9: whenever a valid claim and a refund are submitted together, the
\* claim takes effect and the refund fails in either order.  Sequenced
\* after the claim the refund finds no escrow; sequenced before it, the
\* refund has to be rejected in the state where the claim is valid, whoever
\* submits it.
C9_BuyerWinsTies ==
    \A t \in TokenIds :
        (\E caller \in Addr, secretS \in Bytes32 :
             claimError(caller, t, secretS) = "")
            => \A anyone \in Addr : refundError(anyone, t) # ""

-----------------------------------------------------------------------------
(* Properties of the swap *)

\* The bitcoin the coordinator recorded as locked for the swap registered
\* under hashH has been spent the given way.
BtcSpent(hashH, how) ==
    /\ hashH \in DOMAIN pendingHTLCs
    /\ \E f \in DOMAIN btcHTLC :
        /\ pendingHTLCs[hashH].btcTxid = {f}
        /\ btcHTLC[f].hashH = hashH
        /\ btcHTLC[f].state = how

\* The escrow opened under hashH ended the given way, and the token now
\* rests, out of escrow, with the given party of that escrow.
AssetSettledTo(hashH, type, party) ==
    \E i \in DOMAIN log :
        /\ log[i].type = type
        /\ log[i].hashH = hashH
        /\ ~InEscrow(log[i].tokenId)
        /\ owners[log[i].tokenId] = log[i][party]

\* The seller has claimed the bitcoin and taken the asset back by refund.
SellerHoldsBoth(hashH) ==
    BtcSpent(hashH, "claimed") /\ AssetSettledTo(hashH, "SaleRefund", "a")

\* The buyer has claimed the asset and taken the bitcoin back by refund.
BuyerHoldsBoth(hashH) ==
    BtcSpent(hashH, "refunded") /\ AssetSettledTo(hashH, "SaleSettle", "b")

\* C1: cross-leg atomicity: in no reachable state have both legs of a swap
\* settled to the same party: the seller never holds the claimed bitcoin
\* together with the refunded asset, nor the buyer the claimed asset together
\* with the refunded bitcoin.
C1_CrossLegAtomicity ==
    \A hashH \in RegisteredKeys : ~SellerHoldsBoth(hashH) /\ ~BuyerHoldsBoth(hashH)

Rank(status) ==
    CASE status = "waiting_btc" -> 0
      [] status = "btc_locked" -> 1
      [] status = "asset_locked" -> 2
      [] OTHER -> 3

\* C3: the status of a swap moves only forward along waiting_btc,
\* btc_locked, asset_locked, claimed, and a terminal status never changes
\* again, in any step other than a registration (which makes a new record).
C3_StatusForward ==
    [][(vars' # vars /\ ~RegisterSwap) =>
        \A h \in DOMAIN pendingHTLCs \cap DOMAIN pendingHTLCs' :
            /\ Rank(pendingHTLCs'[h].status) >= Rank(pendingHTLCs[h].status)
            /\ pendingHTLCs[h].status \in Terminal
                   => pendingHTLCs'[h].status = pendingHTLCs[h].status
      ]_vars

-----------------------------------------------------------------------------
(* Properties of the coordinator *)

\* The step registers a swap under hashH.
Registers(hashH) ==
    \E tokenId \in TokenIds, deadline \in Deadlines :
        registerSwap(tokenId, hashH, PRICE, SellerBtc, "buyer", deadline)

\* C11, second half: once the clock has passed the deadline of a swap that
\* is still waiting for its funding, no step moves that swap to btc_locked,
\* whenever the funding transaction is seen.
C11_NoLockAfterDeadline ==
    [][vars' # vars =>
        \A h \in DOMAIN pendingHTLCs \cap DOMAIN pendingHTLCs' :
            (pendingHTLCs[h].status = "waiting_btc" /\ pendingHTLCs[h].deadline < now)
                => pendingHTLCs'[h].status # "btc_locked"
      ]_vars

\* The scheduling the expiry check relies on: the clock advances, the 60 s
\* timer of start() keeps firing whatever else is in flight, and every
\* awaited call returns or throws.
Fairness ==
    /\ WF_vars(TickSystem)
    /\ SF_vars(ExpiryTimer)
    /\ WF_vars(CheckAddressReturns)
    /\ WF_vars(LedgerAnswers)
    /\ WF_vars(IsInEscrowReturns)
    /\ WF_vars(LedgerIncludes \/ SubmissionFails)
    /\ WF_vars(WaitReturns)

SpecFair == Spec /\ Fairness

\* The first half of C11, which holds under SpecFair: a swap that is waiting
\* for its funding when the clock has passed its deadline is eventually
\* expired.
EventuallyExpired ==
    \A h \in RegisteredKeys :
        (/\ h \in DOMAIN pendingHTLCs
         /\ pendingHTLCs[h].status = "waiting_btc"
         /\ pendingHTLCs[h].deadline < now)
            ~> (h \in DOMAIN pendingHTLCs /\ pendingHTLCs[h].status = "expired")

\* C12: registering a swap under a hashH that is already in the pending-swap
\* map is rejected: it leaves the status, btcTxid, secretS and timestamps
\* of the existing record as they were.
C12_DuplicateHashRejected ==
    [][\A h \in DOMAIN pendingHTLCs :
          Registers(h) =>
              \A field \in {"status", "btcTxid", "secretS", "createdAt", "updatedAt"} :
                  pendingHTLCs'[h][field] = pendingHTLCs[h][field]
      ]_vars

\* The step emits htlc_detected for the swap under hashH and the
\* transaction txid: the record is updated to btc_locked with that btcTxid.
Detects(hashH, txid) ==
    /\ hashH \in DOMAIN pendingHTLCs \cap DOMAIN pendingHTLCs'
    /\ pendingHTLCs'[hashH] # pendingHTLCs[hashH]
    /\ pendingHTLCs'[hashH].status = "btc_locked"
    /\ pendingHTLCs'[hashH].btcTxid = {txid}

\* C13: however often and by whichever route a funding transaction is
\* delivered, at most one htlc_detected event is produced for it, and a
\* transaction whose txid is in the processed set produces none.
C13_OneDetectionPerTx ==
    [][vars' # vars =>
        \A tx \in btcTxs :
            LET detected == {h \in DOMAIN pendingHTLCs : Detects(h, tx.txid)}
            IN  /\ Cardinality(detected) <= 1
                /\ tx.txid \in processedTxs => detected = {}
      ]_vars

\* The satoshis the outputs of vout pay to the address.
RECURSIVE PaidTo(_, _)
PaidTo(vout, address) ==
    IF vout = << >> THEN 0
    ELSE (IF Head(vout).address = address THEN RoundSats(Head(vout).value) ELSE 0)
         + PaidTo(Tail(vout), address)

\* C14: a transaction moves a swap to btc_locked only when its outputs to
\* the seller's address sum to at least priceBTC; outputs to other addresses
\* do not count.
C14_SellerOutputsCoverPrice ==
    [][vars' # vars =>
        \A tx \in btcTxs : \A h \in DOMAIN pendingHTLCs :
            Detects(h, tx.txid) =>
                PaidTo(tx.vout, pendingHTLCs[h].sellerAddress) >= pendingHTLCs[h].priceBTC
      ]_vars

\* C15: the ledger executes a saleOpen of the coordinator for a swap only
\* when the funding transaction recorded for that swap has at least
\* MIN_CONFIRMATIONS confirmations.
C15_ConfirmationGating ==
    [][vars' # vars =>
        \A task \in BagToSet(tasks) :
            (/\ task.kind = "saleOpen"
             /\ saleOpenIncluded(task)
             /\ Emitted("SaleOpen", task.tokenId)
             /\ task.hashH \in DOMAIN pendingHTLCs)
                => \A f \in pendingHTLCs[task.hashH].btcTxid :
                       \A c \in Confirmations(f) : c >= MIN_CONFIRMATIONS
      ]_vars

\* C16: when the expiry handling of a swap that had its funding recorded
\* finds the token in escrow and its refund takes effect on the ledger, the
\* swap ends in status refunded: it has that status when the handling
\* returns with the receipt of its accepted refund.
C16_RefundedAfterExpiryRefund ==
    [][vars' # vars =>
        \A task \in BagToSet(tasks) :
            (/\ task.kind = "refund" /\ task.context = "htlc_expiry"
             /\ task.answer = << Receipt(1) >>
             /\ refundAsset(task, TRUE)
             /\ task.hashH \in DOMAIN pendingHTLCs
             /\ pendingHTLCs[task.hashH].btcTxid # {})
                => pendingHTLCs'[task.hashH].status = "refunded"
      ]_vars

\* C17: while no funding transaction exists, so that every swap that
\* expires does so from waiting_btc, the coordinator submits no refund for
\* an expired swap, whatever the escrow state of its token.
C17_NoRefundFromWaiting ==
    btcTxs = {} =>
        \A task \in BagToSet(tasks) : ~(task.kind = "refund" /\ task.context = "htlc_expiry")

\* The happy path E1 under fair scheduling.  The swap is registered with
\* T_asset = now + 10800, the 2 h buffer and the ledger's hour (or a second
\* later) while the clock shows 0, the buyer funds it, blocks are mined,
\* the seller spends the funding with the secret once the token is in
\* escrow, and the coordinator polls, hears the socket and calls the
\* ledger.  The clock stays at the instant of registration: nothing of E1
\* waits for it, and no deadline passes.
E1Deadline == timeoutBufferSeconds + MIN_ESCROW_DURATION

RegisterHappy ==
    \E tokenId \in TokenIds, hashH \in RegisteredKeys, deadline \in {E1Deadline, Deadline} :
        /\ hashH \notin DOMAIN pendingHTLCs
        /\ registerSwap(tokenId, hashH, PRICE, SellerBtc, "buyer", deadline)

FundHappy ==
    \E f \in FundingIds, vout \in FundingVouts, hashH \in RegisteredKeys,
       deadline \in {E1Deadline, Deadline} :
        fundHTLC(f, vout, hashH, btcTimelock(deadline))

\* The seller reveals the secret on Bitcoin once the asset is locked.
SellerSpendsHappy ==
    /\ \E tokenId \in TokenIds : InEscrow(tokenId)
    /\ SellerClaimsBTC

CheckAddressAnswers ==
    \E task \in BagToSet(tasks) : checkAddressForHTLC(task, TRUE)

NextHappy ==
    \/ PartyMint
    \/ RegisterHappy
    \/ FundHappy
    \/ MineBlock
    \/ SellerSpendsHappy
    \/ PollFires
    \/ CheckAddressReturns
    \/ WebSocketPush
    \/ ObserverLedgerIncludes
    \/ ObserverWaitReturns

\* The poll keeps firing and the Bitcoin API keeps answering it, blocks
\* keep being mined, the seller spends the funding, and every call of the
\* ledger is included and returns.
HappyFairness ==
    /\ SF_vars(PollFires)
    /\ SF_vars(CheckAddressAnswers)
    /\ WF_vars(MineBlock)
    /\ WF_vars(SellerSpendsHappy)
    /\ WF_vars(ObserverLedgerIncludes)
    /\ WF_vars(ObserverWaitReturns)

SpecHappy == Init /\ [][NextHappy]_vars /\ HappyFairness

\* E1's premise: the swap under hashH is registered with T_asset = now +
\* 10800 for a token the seller holds and waits for its funding, and the
\* funding transaction f pays the seller's address at least priceBTC under
\* hashH and has MIN_CONFIRMATIONS confirmations.
HappyPathStarted(hashH, f) ==
    /\ hashH \in DOMAIN pendingHTLCs
    /\ pendingHTLCs[hashH].status = "waiting_btc"
    /\ pendingHTLCs[hashH].deadline = pendingHTLCs[hashH].createdAt + E1Deadline
    /\ owners[pendingHTLCs[hashH].tokenId] = "seller"
    /\ f \in DOMAIN btcHTLC
    /\ btcHTLC[f].hashH = hashH
    /\ \A c \in Confirmations(f) : c >= MIN_CONFIRMATIONS
    /\ \E tx \in btcTxs :
           /\ tx.txid = f
           /\ PaidTo(tx.vout, pendingHTLCs[hashH].sellerAddress)
                  >= pendingHTLCs[hashH].priceBTC

\* E1's end: the buyer owns the token, the swap is claimed, and the ledger
\* has emitted SaleOpen and then SaleSettle for the token under hashH.
HappyPathEnded(hashH) ==
    /\ hashH \in DOMAIN pendingHTLCs
    /\ pendingHTLCs[hashH].status = "claimed"
    /\ owners[pendingHTLCs[hashH].tokenId] = pendingHTLCs[hashH].buyerAddress
    /\ \E i, j \in DOMAIN log :
           /\ i < j
           /\ log[i].type = "SaleOpen" /\ log[i].hashH = hashH
           /\ log[j].type = "SaleSettle" /\ log[j].hashH = hashH

\* C18: on the happy path E1, with T_asset = now + 10800 and the 2 h
\* buffer, once a confirmed funding transaction of at least priceBTC exists
\* for the swap the run ends with the token owned by the buyer, the swap
\* claimed, and SaleOpen then SaleSettle emitted in that order: the
\* coordinator's saleOpen and its claim are accepted by the ledger.
C18_HappyPath ==
    \A hashH \in RegisteredKeys, f \in FundingIds :
        HappyPathStarted(hashH, f) ~> HappyPathEnded(hashH)

-----------------------------------------------------------------------------
(* Properties of saleOpen *)

\* C19: a token has at most one active escrow.  While its escrow is active
\* every saleOpen on it is rejected, the owner's with "Token is in escrow";
\* no SaleOpen is emitted for it, and its escrow record changes only by being
\* cleared, so that seller, buyer, hashH, expiryTimestamp and priceBTC of the
\* existing escrow stay as they are.
C19_OneActiveEscrow ==
    [][vars' # vars => \A t \in TokenIds :
        InEscrow(t) =>
            /\ \A caller \in Addr, buyer \in Addr \cup {ZERO}, hashH \in Hashes,
                  d \in ExpiryOffsets, priceBTC \in Prices :
                   /\ saleOpenError(caller, t, buyer, hashH, now + d, priceBTC) # ""
                   /\ caller = owners[t] =>
                          saleOpenError(caller, t, buyer, hashH, now + d, priceBTC)
                              = "Token is in escrow"
            /\ ~Emitted("SaleOpen", t)
            /\ saleEscrows'[t] # saleEscrows[t] => saleEscrows'[t] = EmptyEscrow
      ]_vars

\* An escrow is active and the owner's second saleOpen, valid in every
\* argument, is rejected because of it.
C19_Witness ==
    /\ InEscrow(1)
    /\ owners[1] = "seller"
    /\ saleEscrows[1].buyer = "buyer"
    /\ saleOpenError("seller", 1, "other", SHA256(2), now + MIN_ESCROW_DURATION + 1,
                     PRICE) = "Token is in escrow"

\* C20: on a token that exists and is not in escrow, the owner's saleOpen is
\* accepted exactly when now + 1 h < expiryTimestamp <= now + 30 d, the buyer
\* is neither the zero address nor the owner, hashH is not zero and priceBTC
\* is positive; an escrow becomes active only in a step that emits SaleOpen,
\* and the escrow it records satisfies all of these, so every rejected
\* saleOpen leaves the token without an escrow.
C20_SaleOpenLimits ==
    [][vars' # vars => \A t \in TokenIds :
        /\ (Exists(t) /\ ~InEscrow(t)) =>
               \A buyer \in Addr \cup {ZERO}, hashH \in Hashes,
                  d \in BoundaryOffsets, priceBTC \in BoundaryPrices :
                   (saleOpenError(owners[t], t, buyer, hashH, now + d, priceBTC) = "")
                       <=> /\ d > 3600
                           /\ d <= 30 * 86400
                           /\ buyer # ZERO
                           /\ buyer # owners[t]
                           /\ hashH # 0
                           /\ priceBTC > 0
        /\ (saleEscrows'[t].active /\ ~saleEscrows[t].active) =>
               Emitted("SaleOpen", t)
        /\ Emitted("SaleOpen", t) =>
               /\ ~saleEscrows[t].active
               /\ saleEscrows'[t].active
               /\ saleEscrows'[t].seller = owners[t]
               /\ saleEscrows'[t].buyer \notin {ZERO, owners[t]}
               /\ saleEscrows'[t].hashH # 0
               /\ saleEscrows'[t].priceBTC > 0
               /\ saleEscrows'[t].expiryTimestamp > now + 3600
               /\ saleEscrows'[t].expiryTimestamp <= now + 30 * 86400
      ]_vars

\* An escrow was accepted with the latest expiry allowed and a price of one
\* satoshi.
C20_Witness ==
    /\ InEscrow(1)
    /\ ret.op = "saleOpen"
    /\ saleEscrows[1].expiryTimestamp = now + 30 * 86400
    /\ saleEscrows[1].priceBTC = 1

\* C21: on a token that exists and is not in escrow, the owner's saleOpen
\* with expiryTimestamp equal to the ledger time plus exactly 3600 seconds,
\* valid in every other argument, is accepted.
C21_OpensAtOneHour ==
    \A t \in TokenIds :
        (Exists(t) /\ ~InEscrow(t)) =>
            \A buyer \in Addr \ {owners[t]}, hashH \in Hashes \ {0} :
                saleOpenError(owners[t], t, buyer, hashH, now + 3600, PRICE) = ""

-----------------------------------------------------------------------------
(* packages/shared/src/utils/time.ts *)

\* calculateTimeWindows(deadline, bufferHours = DEFAULT_BUFFER_HOURS)
calculateTimeWindows(deadline, bufferHours) ==
    [assetTimelock |-> deadline,
     btcTimelock |-> addHours(deadline, bufferHours),
     bufferHours |-> bufferHours]

\* validateTimeWindows without the check of the upper limit of the buffer.
validateTimeWindowsNoUpperLimit(windows) ==
    LET gap == windows.btcTimelock - windows.assetTimelock
        errors ==
            (IF windows.assetTimelock <= now
             THEN <<"Asset timelock must be in the future">> ELSE << >>)
            \o (IF windows.btcTimelock <= windows.assetTimelock
                THEN <<"Bitcoin timelock must be after asset timelock">>
                ELSE << >>)
            \o (IF gap < 1 * HOUR_IN_SECONDS
                THEN <<"Buffer between timelocks must be at least 1 hour">>
                ELSE << >>)
    IN [valid |-> Len(errors) = 0, errors |-> errors]

\* validateTimeWindows(windows): actualBuffer is the quotient
\* (btcTimelock - assetTimelock) / HOUR_IN_SECONDS of floating-point numbers,
\* so actualBuffer < 1 is gap < 3600 and actualBuffer > 24 is gap > 86400.
validateTimeWindows(windows) ==
    LET gap == windows.btcTimelock - windows.assetTimelock
        errors ==
            (IF windows.assetTimelock <= now
             THEN <<"Asset timelock must be in the future">> ELSE << >>)
            \o (IF windows.btcTimelock <= windows.assetTimelock
                THEN <<"Bitcoin timelock must be after asset timelock">>
                ELSE << >>)
            \o (IF gap < 1 * HOUR_IN_SECONDS
                THEN <<"Buffer between timelocks must be at least 1 hour">>
                ELSE << >>)
            \o (IF gap > 24 * HOUR_IN_SECONDS
                THEN <<"Buffer between timelocks should not exceed 24 hours">>
                ELSE << >>)
    IN [valid |-> Len(errors) = 0, errors |-> errors]

\* The deadlines, buffers and windows the utilities are called with.
WindowDeadlines == {0, MIN_ESCROW_DURATION, MIN_ESCROW_DURATION + 1, Deadline}
BufferHours == {0, 1, DEFAULT_BUFFER_HOURS, 24, 25}
WindowGaps == {0 - HOUR_IN_SECONDS, 0, HOUR_IN_SECONDS - 1, HOUR_IN_SECONDS,
               2 * HOUR_IN_SECONDS, 24 * HOUR_IN_SECONDS,
               24 * HOUR_IN_SECONDS + 1}
WindowInputs ==
    {[assetTimelock |-> a, btcTimelock |-> a + g,
      bufferHours |-> DEFAULT_BUFFER_HOURS] :
        a \in WindowDeadlines, g \in WindowGaps}

CallCalculateTimeWindows ==
    /\ \E deadline \in WindowDeadlines, bufferHours \in BufferHours :
        util' = [op |-> "calculateTimeWindows", at |-> now,
                 deadline |-> deadline, bufferHours |-> bufferHours,
                 result |-> calculateTimeWindows(deadline, bufferHours)]
    /\ UNCHANGED <<ledgerVars, now, offLedger, revealed, service, emits>>

CallValidateTimeWindows ==
    /\ \E windows \in WindowInputs :
        util' = [op |-> "validateTimeWindows", at |-> now,
                 windows |-> windows,
                 result |-> validateTimeWindows(windows)]
    /\ UNCHANGED <<ledgerVars, now, offLedger, revealed, service, emits>>

NextTime == CallCalculateTimeWindows \/ CallValidateTimeWindows \/ TickLedger

SpecTime == Init /\ [][NextTime]_vars

\* C22: calculateTimeWindows(deadline, bufferHours) returns assetTimelock =
\* deadline and btcTimelock = deadline + bufferHours * 3600; every window
\* validateTimeWindows accepts has assetTimelock > now and a gap
\* btcTimelock - assetTimelock between 3600 and 86400 seconds, and every
\* window with btcTimelock <= assetTimelock or a gap under 3600 or over 86400
\* seconds is rejected.
C22_AsymmetricTimelocks ==
    /\ util.op = "calculateTimeWindows" =>
        /\ util.result.assetTimelock = util.deadline
        /\ util.result.btcTimelock = util.deadline + util.bufferHours * 3600
    /\ util.op = "validateTimeWindows" =>
        LET gap == util.windows.btcTimelock - util.windows.assetTimelock
        IN /\ util.result.valid =>
                /\ util.windows.assetTimelock > util.at
                /\ 3600 <= gap /\ gap <= 86400
           /\ (util.windows.btcTimelock <= util.windows.assetTimelock
               \/ gap < 3600 \/ gap > 86400) => ~util.result.valid

\* A window with a gap of exactly 24 hours has been accepted.
C22_Witness ==
    /\ util.op = "validateTimeWindows"
    /\ util.result.valid
    /\ util.windows.btcTimelock - util.windows.assetTimelock = 86400

-----------------------------------------------------------------------------
(* The metadata of a token over its life: notes, freezing, sale, settlement *)

SetNoteLens == {1, MAX_NOTE_LENGTH + 1}

CallSetNote ==
    /\ \E caller \in Addr, tokenId \in TokenIds, note \in SetNoteLens :
           setNote(caller, tokenId, note)
    /\ UNCHANGED <<offLedger, revealed, util, service, emits>>

CallFreezeMetadata ==
    /\ \E caller \in Addr, tokenId \in TokenIds : freezeMetadata(caller, tokenId)
    /\ UNCHANGED <<offLedger, revealed, util, service, emits>>

NextMetadata ==
    \/ CallMint
    \/ CallbackReturns
    \/ CallSetNote
    \/ CallFreezeMetadata
    \/ CallSaleOpen
    \/ CallClaim
    \/ CallRefund
    \/ TickLedger

SpecMetadata == Init /\ [][NextMetadata]_vars

\* C23: once frozen is true on a token it is true in every later state; on a
\* frozen token every setNote and every freezeMetadata fails, and the owner's
\* call outside escrow with a note within the limit fails with "Metadata is
\* frozen", respectively "Metadata already frozen"; setNote and
\* freezeMetadata fail for every caller who is not the owner and while the
\* token is in escrow; and the metadata of a token changes only in an accepted
\* mint, or in an accepted setNote or freezeMetadata of its owner while it is
\* neither frozen nor in escrow.
C23_FreezingIsPermanent ==
    /\ [][\A t \in TokenIds :
            assetMetadata[t].frozen => assetMetadata'[t].frozen]_vars
    /\ [](\A t \in TokenIds, caller \in Addr, note \in {0} \cup SetNoteLens :
            /\ assetMetadata[t].frozen =>
                /\ setNoteError(caller, t, note) # ""
                /\ freezeMetadataError(caller, t) # ""
                /\ (caller = owners[t] /\ ~InEscrow(t)) =>
                    /\ note <= MAX_NOTE_LENGTH =>
                           setNoteError(caller, t, note) = "Metadata is frozen"
                    /\ freezeMetadataError(caller, t) = "Metadata already frozen"
            /\ (caller # owners[t] \/ InEscrow(t)) =>
                /\ setNoteError(caller, t, note) # ""
                /\ freezeMetadataError(caller, t) # "")
    /\ [][\A t \in TokenIds :
            assetMetadata'[t] # assetMetadata[t] =>
                /\ ~assetMetadata[t].frozen
                /\ ~InEscrow(t)
                /\ ret'.tokenId = t
                /\ \/ /\ ret'.op = "mint"
                      /\ IF minting = << >> THEN ~Exists(t)
                         ELSE minting[1].tokenId = t
                   \/ /\ ret'.op \in {"setNote", "freezeMetadata"}
                      /\ ret'.caller = owners[t]]_vars

-----------------------------------------------------------------------------
(* packages/shared/src/utils/crypto.ts and the fixture of the contract tests *)

\* The byte strings a 32-byte secret is hashed as: its 32 bytes
\* (abi.encodePacked(secretS)), the UTF-8 text of its 64 hex characters
\* (TextEncoder.encode(secret)), and the UTF-8 text of "0x" and its 64 hex
\* characters (ethers.toUtf8Bytes("0x" + ..)).
RawBytes(secretS) == [form |-> "bytes32", of |-> secretS]
HexText(secretS) == [form |-> "hex text", of |-> secretS]
PrefixedHexText(secretS) == [form |-> "0x hex text", of |-> secretS]

\* A digest is a 32-byte value. SHA-256 and Keccak-256 are free of
\* collisions, on one byte string and between each other: the digest of the
\* 32 bytes is the ledger's SHA256, every other digest is a value of its own.
DigestSHA256(bytes) ==
    IF bytes.form = "bytes32" THEN SHA256(bytes.of)
    ELSE IF bytes.form = "hex text" THEN 200 + bytes.of
    ELSE 300 + bytes.of

DigestKeccak256(bytes) ==
    IF bytes.form = "bytes32" THEN 400 + bytes.of
    ELSE IF bytes.form = "hex text" THEN 500 + bytes.of
    ELSE 600 + bytes.of

\* sha256(data: string): crypto.subtle.digest('SHA-256', encoder.encode(data))
sha256(data) == DigestSHA256(data)

\* The 64 hex characters of a 32-byte value, as character codes ('0' is
\* 48, 'a' 97): bytes32(0) is 00..00, secret 1 aa..aa (SAMPLE_HTLC's) and
\* secret 2 bb..bb.  The generators draw two more values, 3 and 4:
\* 00..0043b9e12d7a9cd419 and cc..cc13cd36fb9f45a397.
Repeated(code, n) == [i \in 1 .. n |-> code]
HexCodes(secretS) ==
    CASE secretS = 0 -> Repeated(48, 64)
      [] secretS = 1 -> Repeated(97, 64)
      [] secretS = 2 -> Repeated(98, 64)
      [] secretS = 3 -> Repeated(48, 48)
                        \o << 52, 51, 98, 57, 101, 49, 50, 100,
                              55, 97, 57, 99, 100, 52, 49, 57 >>
      [] secretS = 4 -> Repeated(99, 48)
                        \o << 49, 51, 99, 100, 51, 54, 102, 98,
                              57, 102, 52, 53, 97, 51, 57, 55 >>

\* data.charCodeAt(i) for the characters of a text
Characters(data) ==
    IF data.form = "0x hex text" THEN << 48, 120 >> \o HexCodes(data.of)
    ELSE HexCodes(data.of)

\* The loop of sha256Sync over the characters from i on.  One turn is
\* hash = ((hash << 5) - hash) + char; hash = hash & hash, that is
\* 31 * hash + char in 32 bits, here on the two 16-bit halves << hi, lo >> of
\* the 32-bit integer; every turn leaves a 32-bit integer, with which the
\* next turn starts.
RECURSIVE rollingHash(_, _, _)
rollingHash(hash, codes, i) ==
    IF i > Len(codes) THEN hash
    ELSE LET low == 31 * hash[2] + codes[i]
             next == << (31 * hash[1] + low \div 65536) % 65536, low % 65536 >>
         IN  IF next \in (0 .. 65535) \X (0 .. 65535)
             THEN rollingHash(next, codes, i + 1)
             ELSE hash

\* sha256Sync(data: string): a 32-bit rolling hash of the characters, padded
\* with zeros to 64 hex digits; not SHA-256 of any byte string.  The result
\* is the 32-byte value whose number is Math.abs(hash), at most 2^31; it is
\* written here as 0 - Math.abs(hash), so that 0 is bytes32(0) and no value
\* is written as a secret or a digest is.  The signed integer is negative
\* when bit 15 of hi is set.
sha256Sync(data) ==
    LET hash == rollingHash(<< 0, 0 >>, Characters(data), 1)
        hi == hash[1]
        lo == hash[2]
    IN  IF hi >= 32768 THEN (hi - 65536) * 65536 + lo
        ELSE 0 - (hi * 65536 + lo)

\* The secrets the generators draw.
GeneratedSecrets == Secrets \cup {3, 4}

\* generateSecret(): 32 random bytes, their hex text, the hash of the text.
generateSecret(secretS) ==
    [secret |-> secretS, hash |-> sha256(HexText(secretS))]

generateSecretSync(secretS) ==
    [secret |-> secretS, hash |-> sha256Sync(HexText(secretS))]

\* SAMPLE_HTLC: secret "0x" + "a".repeat(64), hash keccak256 of that text.
SAMPLE_SECRET == 1
SAMPLE_HTLC ==
    [secret |-> SAMPLE_SECRET,
     hash |-> DigestKeccak256(PrefixedHexText(SAMPLE_SECRET))]

CommitmentOps == {"generateSecret", "generateSecretSync", "SAMPLE_HTLC"}

\* A (secret, hash) pair is produced.
Generate ==
    /\ \/ \E secretS \in GeneratedSecrets :
            util' = [op |-> "generateSecret", at |-> now,
                     secret |-> secretS,
                     hash |-> generateSecret(secretS).hash]
       \/ \E secretS \in GeneratedSecrets :
            util' = [op |-> "generateSecretSync", at |-> now,
                     secret |-> secretS,
                     hash |-> generateSecretSync(secretS).hash]
       \/ util' = [op |-> "SAMPLE_HTLC", at |-> now,
                   secret |-> SAMPLE_HTLC.secret, hash |-> SAMPLE_HTLC.hash]
    /\ UNCHANGED <<ledgerVars, now, offLedger, revealed, service, emits>>

\* The seller opens an escrow under the hash of the pair.
OpenWithCommitment ==
    /\ util.op \in CommitmentOps
    /\ \E tokenId \in TokenIds :
           saleOpen("seller", tokenId, "buyer", util.hash,
                    now + MIN_ESCROW_DURATION + 1, PRICE)
    /\ UNCHANGED <<offLedger, revealed, util, service, emits>>

\* The buyer claims with the secret of the pair.
ClaimWithCommitment ==
    /\ util.op \in CommitmentOps
    /\ \E tokenId \in TokenIds :
           /\ claim("buyer", tokenId, util.secret)
           /\ revealed' = IF claimError("buyer", tokenId, util.secret) = ""
                          THEN revealed \cup {util.secret} ELSE revealed
    /\ UNCHANGED <<offLedger, util, service, emits>>

NextCommitment ==
    \/ CallMint
    \/ CallbackReturns
    \/ Generate
    \/ OpenWithCommitment
    \/ ClaimWithCommitment
    \/ CallRefund
    \/ TickLedger

SpecCommitment == Init /\ [][NextCommitment]_vars

\* C24: the hash of every pair produced by the secret generators and by the
\* test fixture is the SHA-256 digest of the 32 bytes of its secret, and while
\* an escrow opened under that hash has not expired, the buyer's claim with
\* the secret of the pair is accepted.
C24_OneCommitmentFunction ==
    util.op \in CommitmentOps =>
        /\ util.hash = SHA256(util.secret)
        /\ \A t \in TokenIds :
               (InEscrow(t) /\ saleEscrows[t].hashH = util.hash
                    /\ now < saleEscrows[t].expiryTimestamp) =>
                   claimError(saleEscrows[t].buyer, t, util.secret) = ""

-----------------------------------------------------------------------------
(* Properties of the coordinator's ledger calls *)

\* The calls the step starts: those with more copies suspended after the
\* step than before.
NewTasks ==
    {task \in BagToSet(tasks') : /\ task.answer = << >>
                                 /\ CopiesIn(task, tasks') > CopiesIn(task, tasks)}

\* The saleOpen the coordinator owes the swap recorded as htlc: none when
\* deadline - timeoutBufferSeconds <= now.
OwedSaleOpen(htlc) ==
    IF htlc.deadline - timeoutBufferSeconds <= now THEN {}
    ELSE {Task("saleOpen", "asset_escrow", htlc, {}, {},
               htlc.deadline - timeoutBufferSeconds)}

\* C25: a step that emits htlc_detected for a swap submits saleOpen(tokenId,
\* buyerAddress, hashH, deadline - timeoutBufferSeconds, priceBTC) with the
\* values of the swap's record in the pending-swap map, and submits no other
\* saleOpen for that hashH; when deadline - timeoutBufferSeconds <= now it
\* submits none.
C25_OpensWithRegisteredValues ==
    [][vars' # vars =>
        \A h \in DOMAIN pendingHTLCs, tx \in btcTxs :
            Detects(h, tx.txid) =>
                /\ OwedSaleOpen(pendingHTLCs[h]) \subseteq NewTasks
                /\ \A task \in NewTasks :
                       (task.kind = "saleOpen" /\ task.hashH = h) =>
                           task \in OwedSaleOpen(pendingHTLCs[h])
      ]_vars

\* C26: a saleOpen or claim of the coordinator that fails is retried: after
\* the step in which the call fails for the first time, the call is still
\* among the coordinator's pending calls.
C26_FailedCallIsRetried ==
    [][\A task \in BagToSet(tasks) :
          (task.kind \in {"saleOpen", "claim"} /\ submissionFails(task)) =>
              \E retry \in BagToSet(tasks') :
                  /\ retry.kind = task.kind
                  /\ retry.tokenId = task.tokenId
                  /\ retry.hashH = task.hashH
      ]_vars

\* The ledger has emitted SaleSettle for the token under hashH.
SettledUnder(tokenId, hashH) ==
    \E i \in DOMAIN log :
        /\ log[i].type = "SaleSettle"
        /\ log[i].tokenId = tokenId
        /\ log[i].hashH = hashH

\* C27: a swap's status becomes claimed when, and only when, a claim on the
\* asset ledger has succeeded for its token.  Only when: a swap has the
\* status claimed only after the ledger has emitted SaleSettle for its
\* token.  When: once a claim of the coordinator, forceClaim's included,
\* returns with the receipt of its acceptance, the swap registered for the
\* token under the hash the escrow was settled under has the status
\* claimed.
C27_ClaimedWhenAndOnlyWhenSettled ==
    /\ [](\A h \in DOMAIN pendingHTLCs :
            pendingHTLCs[h].status = "claimed" =>
                Count("SaleSettle", pendingHTLCs[h].tokenId) > 0)
    /\ [][vars' # vars =>
            \A task \in BagToSet(tasks) :
                (/\ task.kind = "claim"
                 /\ task.answer = << Receipt(1) >>
                 /\ claimAsset(task, TRUE))
                    => \A h \in DOMAIN pendingHTLCs :
                           (/\ pendingHTLCs[h].tokenId = task.tokenId
                            /\ SettledUnder(task.tokenId, h))
                               => /\ h \in DOMAIN pendingHTLCs'
                                  /\ pendingHTLCs'[h].status = "claimed"
       ]_vars

-----------------------------------------------------------------------------
(* The secret path under fair scheduling: one registration per swap, the  *)
(* funding, the seller's spend, the poll and the timer.  The second loop  *)
(* of pollForUpdates takes the swaps in asset_locked, a status that       *)
(* updateHTLCStatus is never called with (BitcoinWatcher.ts:265, 303,     *)
(* 352, 384 pass btc_locked, claimed and expired), so that it has no swap *)
(* to look at and checkForSecretReveal is not started.                    *)

NextSecret ==
    \/ PartyMint
    \/ RegisterObserved
    \/ BuyerFunds
    \/ SellerClaimsBTC
    \/ PollFires
    \/ CheckAddressReturns
    \/ ExpiryTimer
    \/ LedgerAnswers
    \/ IsInEscrowReturns
    \/ LedgerIncludes
    \/ WaitReturns
    \/ SubmissionFails
    \/ TickSystem

\* Fair polling: pollForUpdates keeps running (setInterval), the Bitcoin
\* API keeps answering, the timer keeps firing, the clock
\* advances and every awaited call returns or throws.
SecretFairness ==
    /\ WF_vars(TickSystem)
    /\ SF_vars(ExpiryTimer)
    /\ SF_vars(PollFires)
    /\ WF_vars(CheckAddressReturns)
    /\ WF_vars(LedgerAnswers)
    /\ WF_vars(IsInEscrowReturns)
    /\ WF_vars(LedgerIncludes \/ SubmissionFails)
    /\ WF_vars(WaitReturns)

SpecSecret == Init /\ [][NextSecret]_vars /\ SecretFairness

\* The funding transaction f is spent by a transaction whose witness has the
\* preimage secretS among its elements.
SpentWithPreimage(f, secretS) ==
    \E tx \in Outspends(f) :
    \E i \in DOMAIN tx.vin :
    \E j \in DOMAIN tx.vin[i].witness :
        tx.vin[i].txid = f /\ tx.vin[i].witness[j] = Hex64(secretS)

\* C29: a swap in btc_locked or asset_locked whose recorded funding output
\* is spent by a transaction carrying the preimage of its hashH eventually
\* has secret_revealed emitted for it: its record is moved to claimed with
\* that secret.
C29_SecretDetectionLive ==
    \A h \in RegisteredKeys, f \in FundingIds, secretS \in Secrets :
        (/\ h \in DOMAIN pendingHTLCs
         /\ pendingHTLCs[h].status \in {"btc_locked", "asset_locked"}
         /\ pendingHTLCs[h].btcTxid = {f}
         /\ SHA256(secretS) = h
         /\ SpentWithPreimage(f, secretS))
            ~> (/\ h \in DOMAIN pendingHTLCs
                /\ pendingHTLCs[h].status = "claimed"
                /\ pendingHTLCs[h].secretS = {secretS})

-----------------------------------------------------------------------------
(* Retirement: the coordinator over more than a day.  Swaps are registered *)
(* with a deadline that passes and with one that does not, are funded,     *)
(* detected, claimed on Bitcoin and expired; the clock then runs on past   *)
(* 24 hours after the last of the other instants.  HTLCManager.removeHTLC  *)
(* has no caller, so that cleanup is the one step that removes a record.   *)

DAY_IN_SECONDS == 24 * 60 * 60
LastInstant == btcTimelock(Deadline) + DAY_IN_SECONDS + 1
\* The instants the clock visits here: the start, after the deadline, and
\* more than a day after that.
RetireInstants == {0, btcTimelock(Deadline), LastInstant}
LongDeadline == LastInstant + 1

RegisterRetire ==
    \E tokenId \in TokenIds, hashH \in RegisteredKeys,
       deadline \in {Deadline, LongDeadline} :
        registerSwap(tokenId, hashH, PRICE, SellerBtc, "buyer", deadline)

TickRetire == Tick(RetireInstants)

NextRetire ==
    \/ PartyMint
    \/ RegisterRetire
    \/ BuyerFunds
    \/ SellerClaimsBTC
    \/ PollFires
    \/ CheckAddressReturns
    \/ ExpiryTimer
    \/ LedgerAnswers
    \/ IsInEscrowReturns
    \/ LedgerIncludes
    \/ WaitReturns
    \/ SubmissionFails
    \/ TickRetire

\* The clock advances, the 60 s timer of start() keeps firing, and every
\* awaited call returns or throws.
RetireFairness ==
    /\ WF_vars(TickRetire)
    /\ SF_vars(ExpiryTimer)
    /\ WF_vars(CheckAddressReturns)
    /\ WF_vars(LedgerAnswers)
    /\ WF_vars(IsInEscrowReturns)
    /\ WF_vars(LedgerIncludes \/ SubmissionFails)
    /\ WF_vars(WaitReturns)

SpecRetire == Init /\ [][NextRetire]_vars /\ RetireFairness

\* C30: a step removes a swap from the pending-swap map only if its status
\* is claimed, refunded or expired and at least 24 h have passed since its
\* updatedAt, which is the time it entered its status or later (a step that
\* changes the status, or updatedAt, sets updatedAt to the clock); so a swap
\* that is not terminal is never removed.  And every terminal swap is
\* eventually removed: a terminal record whose 24 h end within the clock's
\* range is eventually out of the map, unless it is registered anew or
\* updated again, which starts its 24 h afresh.
C30_Retirement ==
    /\ [][\A h \in DOMAIN pendingHTLCs :
            h \notin DOMAIN pendingHTLCs' =>
                /\ pendingHTLCs[h].status \in Terminal
                /\ now - pendingHTLCs[h].updatedAt >= DAY_IN_SECONDS]_vars
    /\ [][\A h \in DOMAIN pendingHTLCs \cap DOMAIN pendingHTLCs' :
            (\/ pendingHTLCs'[h].status # pendingHTLCs[h].status
             \/ pendingHTLCs'[h].updatedAt # pendingHTLCs[h].updatedAt) =>
                pendingHTLCs'[h].updatedAt = now]_vars
    /\ \A h \in RegisteredKeys, u \in RetireInstants :
        (/\ h \in DOMAIN pendingHTLCs
         /\ pendingHTLCs[h].status \in Terminal
         /\ pendingHTLCs[h].updatedAt = u
         /\ u + DAY_IN_SECONDS < LastInstant)
            ~> (\/ h \notin DOMAIN pendingHTLCs
                \/ pendingHTLCs[h].status \notin Terminal
                \/ pendingHTLCs[h].updatedAt # u)

\* A swap whose funding was detected has been retired by the timer: the
\* map is empty a day after the last of the other instants.
C30_Witness ==
    /\ now = LastInstant
    /\ processedTxs # {}
    /\ DOMAIN pendingHTLCs = {}

-----------------------------------------------------------------------------
(* Shutdown.  BitcoinWatcher.stop() clears isRunning, closes the socket   *)
(* and clears the poll interval.  The cleanup interval of start() is not  *)
(* kept in a field, a reconnect timeout that is pending stays pending,    *)
(* the calls suspended at an await go on, and the detector's listeners    *)
(* stay attached (EVMBridge.cleanup removes the contract's and the        *)
(* provider's listeners only).                                            *)

\* The sockets that exist and the reconnect timeouts that are pending.
Sockets(sv) ==
    (IF sv.ws = "null" THEN 0 ELSE 1)
    + sv.detached.connecting + sv.detached.open + sv.detached.closing
    + sv.detached.aborting

\* this.ws is assigned: the socket it referred to, if any, lives on.
Detached(sv) ==
    IF sv.ws = "null" THEN sv.detached
    ELSE [sv.detached EXCEPT ![sv.ws] = @ + 1]

\* this.ws = new WebSocket(wsUrl), with its four handlers
connectWebSocket(sv) ==
    [sv EXCEPT !.ws = "connecting", !.detached = Detached(sv)]

\* stop(): this.ws.close(); this.ws = null; clearInterval(this.pollTimer).
\* A socket that was open is closing until its 'close' is emitted, and its
\* 'message' handler still runs for what arrives until then; a socket that
\* was connecting is aborted and hears nothing but its 'close'.
stop ==
    /\ TurnEnded
    /\ service.isRunning
    /\ service' = [service EXCEPT
                      !.isRunning = FALSE,
                      !.ws = "null",
                      !.detached = IF service.ws = "null" THEN @
                                   ELSE IF service.ws = "open"
                                   THEN [@ EXCEPT !.closing = @ + 1]
                                   ELSE [@ EXCEPT !.aborting = @ + 1],
                      !.pollTimer = FALSE]
    /\ UNCHANGED <<ledgerVars, now, watcherVars, btcVars, revealed, util, emits>>

\* start(): connectWebSocket(), startPolling() with its initial poll, and
\* another cleanup interval.
start ==
    /\ TurnEnded
    /\ ~ service.isRunning
    /\ service' = [connectWebSocket(service) EXCEPT !.isRunning = TRUE,
                                                    !.pollTimer = TRUE]
    /\ Sockets(service') <= MaxSockets
    /\ tasks' = tasks (+) firstLoop
    /\ BagCardinality(tasks') <= MaxTasks
    /\ UNCHANGED <<ledgerVars, now, pendingHTLCs, keyOrder, processedTxs, btcVars,
                   revealed, util, emits>>

\* ws.on('open') of the socket in this.ws (referenced) or of another
wsOpen(referenced) ==
    /\ TurnEnded
    /\ IF referenced THEN service.ws = "connecting"
       ELSE service.detached.connecting > 0
    /\ service' = [service EXCEPT
                      !.ws = IF referenced THEN "open" ELSE @,
                      !.detached = IF referenced THEN @
                                   ELSE [@ EXCEPT !.connecting = @ - 1,
                                                  !.open = @ + 1],
                      !.retryCount = 0]
    /\ UNCHANGED <<ledgerVars, now, watcherVars, btcVars, revealed, util, emits>>

\* ws.on('close') of a socket: the one in this.ws (socket = "ws"), or one
\* this.ws does not refer to, in the given state.  The server or the
\* network ends the connection, or close() has been called.  The handler
\* sets this.ws = null whichever socket it belongs to.
wsClose(socket) ==
    /\ TurnEnded
    /\ IF socket = "ws" THEN service.ws # "null"
       ELSE service.detached[socket] > 0
    /\ service' = [service EXCEPT
                      !.ws = "null",
                      !.detached = IF socket = "ws" THEN @
                                   ELSE [Detached(service) EXCEPT ![socket] = @ - 1],
                      !.reconnect = IF /\ service.isRunning
                                       /\ service.retryCount < maxRetries
                                    THEN @ + 1 ELSE @]
    /\ service'.reconnect <= MaxSockets
    /\ UNCHANGED <<ledgerVars, now, watcherVars, btcVars, revealed, util, emits>>

\* The setTimeout of the close handler fires: retryCount++,
\* connectWebSocket(), whatever isRunning is by then.
reconnect ==
    /\ TurnEnded
    /\ service.reconnect > 0
    /\ service' = [connectWebSocket(service) EXCEPT !.reconnect = @ - 1,
                                                    !.retryCount = @ + 1]
    /\ Sockets(service') <= MaxSockets
    /\ UNCHANGED <<ledgerVars, now, watcherVars, btcVars, revealed, util, emits>>

\* Each swap is registered once.
RegisterOnce ==
    \E tokenId \in TokenIds, hashH \in RegisteredKeys :
        /\ hashH \notin DOMAIN pendingHTLCs
        /\ registerSwap(tokenId, hashH, PRICE, SellerBtc, "buyer", Deadline)

Stop == stop
Start == start
WsOpens == \E referenced \in BOOLEAN : wsOpen(referenced)
WsCloses ==
    \E socket \in {"ws", "connecting", "open", "closing", "aborting"} : wsClose(socket)
ReconnectFires == reconnect

NextShutdown ==
    \/ PartyMint
    \/ RegisterOnce
    \/ BuyerFunds
    \/ PollFires
    \/ CheckAddressReturns
    \/ WebSocketPush
    \/ WsCloses
    \/ ReconnectFires
    \/ WsOpens
    \/ ExpiryTimer
    \/ LedgerAnswers
    \/ IsInEscrowReturns
    \/ ObserverLedgerIncludes
    \/ ObserverWaitReturns
    \/ SubmissionFails
    \/ Stop
    \/ Start
    \/ TickSystem

SpecShutdown == Init /\ [][NextShutdown]_vars

\* The step submits a saleOpen, a claim or a refund to the ledger.
Submits ==
    \E task \in NewTasks : task.kind \in {"saleOpen", "claim", "refund"}

\* The step emits htlc_detected, secret_revealed or htlc_expired: the
\* status of a record changes without the record being registered anew.
EmitsWatcherEvent ==
    \E h \in DOMAIN pendingHTLCs \cap DOMAIN pendingHTLCs' :
        /\ pendingHTLCs'[h].status # pendingHTLCs[h].status
        /\ pendingHTLCs'[h].status \in {"btc_locked", "claimed", "expired"}
        /\ ~ Registers(h)

\* C31: once stop() has returned and until start() is called again, the
\* coordinator is quiescent: no reconnect timer fires, no htlc_detected,
\* secret_revealed or htlc_expired event is emitted and no saleOpen, claim
\* or refund is submitted to the ledger, also for the polls and reconnects
\* that were pending when stop() was called.
C31_QuiescentAfterStop ==
    [][(~ service.isRunning /\ ~ service'.isRunning) =>
          /\ ~ ReconnectFires
          /\ ~ EmitsWatcherEvent
          /\ ~ Submits
      ]_vars

-----------------------------------------------------------------------------
(* Properties of the coordinator with several swaps, under SpecObserver *)

\* The swap a funding transaction was made for: the hash its HTLC output
\* is locked under.
FundedFor(txid) ==
    IF txid \in DOMAIN btcHTLC THEN {btcHTLC[txid].hashH} ELSE {}

\* The step changes the status of the record under hashH.
StatusChanges(hashH) ==
    /\ hashH \in DOMAIN pendingHTLCs \cap DOMAIN pendingHTLCs'
    /\ pendingHTLCs'[hashH].status # pendingHTLCs[hashH].status

\* C32: swaps are independent.  Seeing the funding of swap A changes the
\* status of no other swap, and the refund or claim the coordinator submits
\* for swap A settles no escrow that was opened under another swap's hashH,
\* also when the swaps share the tokenId or the seller address.
C32_SwapsIndependent ==
    [][vars' # vars =>
        /\ \A tx \in btcTxs : \A h \in DOMAIN pendingHTLCs :
              (Detects(h, tx.txid) /\ StatusChanges(h))
                  => h \in FundedFor(tx.txid)
        /\ \A task \in BagToSet(tasks) :
              /\ (/\ task.kind = "refund" /\ task.context = "htlc_expiry"
                  /\ refundIncluded(task)
                  /\ Emitted("SaleRefund", task.tokenId))
                     => saleEscrows[task.tokenId].hashH = task.hashH
              /\ (/\ task.kind = "claim" /\ task.context = "asset_claim"
                  /\ claimIncluded(task)
                  /\ Emitted("SaleSettle", task.tokenId))
                     => saleEscrows[task.tokenId].hashH = task.hashH
      ]_vars

-----------------------------------------------------------------------------
(* The observer with more payments than swaps: the seller's address       *)
(* receives one payment more than MaxFundings, each of any observed       *)
(* shape, while the poll and the WebSocket both deliver.                  *)

PaymentIds == 1 .. (MaxFundings + 1)

FundAgain ==
    \E f \in PaymentIds, vout \in FundingVouts, hashH \in RegisteredKeys :
        fundHTLC(f, vout, hashH, btcTimelock(Deadline))

NextFunding ==
    \/ PartyMint
    \/ RegisterOnce
    \/ FundAgain
    \/ PollFires
    \/ CheckAddressReturns
    \/ WebSocketPush
    \/ ExpiryTimer
    \/ LedgerAnswers
    \/ IsInEscrowReturns
    \/ ObserverLedgerIncludes
    \/ ObserverWaitReturns
    \/ SubmissionFails
    \/ TickSystem

SpecFunding == Init /\ [][NextFunding]_vars

\* C33: a swap records at most one funding transaction.  Once a record has
\* left waiting_btc with its btcTxid set, no step emits htlc_detected for
\* it again, replaces its btcTxid or submits another saleOpen for it.
C33_OneFundingPerSwap ==
    [][vars' # vars =>
        \A h \in DOMAIN pendingHTLCs \cap DOMAIN pendingHTLCs' :
            (/\ pendingHTLCs[h].status # "waiting_btc"
             /\ pendingHTLCs[h].btcTxid # {})
                => /\ pendingHTLCs'[h].btcTxid = pendingHTLCs[h].btcTxid
                   /\ \A tx \in btcTxs : ~ Detects(h, tx.txid)
                   /\ ~ \E task \in NewTasks :
                          task.kind = "saleOpen" /\ task.hashH = h
      ]_vars

\* C34: one payment funds one swap.  No two records of the pending-swap map
\* hold the same funding transaction as their btcTxid, whether it was seen
\* by a poll or pushed over the WebSocket, and however many waiting swaps
\* share the seller address the transaction pays.
C34_OnePaymentOneSwap ==
    \A h1, h2 \in DOMAIN pendingHTLCs :
        h1 # h2 => pendingHTLCs[h1].btcTxid \cap pendingHTLCs[h2].btcTxid = {}

\* The ledger holds an active escrow that was opened under hashH.
EscrowedUnder(hashH) ==
    \E t \in TokenIds : saleEscrows[t].active /\ saleEscrows[t].hashH = hashH

\* C35: the coordinator never abandons a locked asset.  Whenever it holds a
\* swap in a terminal status (claimed, refunded, expired) and has no call
\* in flight for that swap, the ledger has no active escrow under the
\* swap's hashH, also after the isInEscrow query or the refund submission
\* has failed.  (The claim asks this of every state with a terminal swap;
\* the states with a call still in flight are left out here, so that a
\* violation is an escrow the coordinator has stopped working on.)
C35_NoAbandonedEscrow ==
    \A h \in DOMAIN pendingHTLCs :
        (/\ pendingHTLCs[h].status \in Terminal
         /\ \A task \in BagToSet(tasks) : task.hashH # h)
            => ~ EscrowedUnder(h)

-----------------------------------------------------------------------------
(* Properties of the ledger and the coordinator together, under SpecOpener *)

\* C36: the account that opens an escrow can never claim it.  An active
\* escrow names the account that opened it as seller and another account as
\* buyer; a claim that takes effect was called by the escrow's buyer, never
\* by its seller; and a claim the coordinator submits for an escrow its own
\* key opened changes nothing on the ledger, whatever the secret.
C36_OpenerCannotClaim ==
    /\ [](\A t \in TokenIds :
            saleEscrows[t].active => saleEscrows[t].seller # saleEscrows[t].buyer)
    /\ [][vars' # vars =>
            /\ \A t \in TokenIds :
                  Emitted("SaleSettle", t)
                      => /\ ret'.op = "claim"
                         /\ ret'.caller = saleEscrows[t].buyer
                         /\ ret'.caller # saleEscrows[t].seller
            /\ \A task \in BagToSet(tasks) :
                  (/\ task.kind = "claim"
                   /\ claimIncluded(task)
                   /\ saleEscrows[task.tokenId].active
                   /\ saleEscrows[task.tokenId].seller = Wallet)
                      => /\ UNCHANGED ledgerVars
                         /\ \A secret \in Bytes32 :
                                claimError(Wallet, task.tokenId, secret) # ""
       ]_vars

\* The coordinator detected the funding of a swap and its key opened the
\* escrow; a claim it then submitted with the preimage of the escrow's hash
\* has been answered by the ledger with a revert: the escrow is still
\* active and within its time, and no SaleSettle was emitted.
C36_Witness ==
    \E h \in DOMAIN pendingHTLCs, task \in BagToSet(tasks) :
        LET t == pendingHTLCs[h].tokenId
        IN  /\ pendingHTLCs[h].status = "btc_locked"
            /\ ret = Ret("saleOpen", Wallet, t)
            /\ saleEscrows[t].active
            /\ saleEscrows[t].seller = Wallet
            /\ saleEscrows[t].hashH = h
            /\ now < saleEscrows[t].expiryTimestamp
            /\ task.kind = "claim"
            /\ task.tokenId = t
            /\ task.secretS # {}
            /\ \A secret \in task.secretS : SHA256(secret) = h
            /\ task.answer = << Receipt(0) >>
            /\ Count("SaleSettle", t) = 0

-----------------------------------------------------------------------------
(* The whole registry: any account calls any function of AssetRegistry    *)
(* with any input.                                                        *)

NextRegistry ==
    \/ CallMint
    \/ CallbackReturns
    \/ CallSetNote
    \/ CallFreezeMetadata
    \/ CallSaleOpen
    \/ CallTransfer
    \/ CallApprove
    \/ CallSetApprovalForAll
    \/ CallClaim
    \/ CallRefund
    \/ TickLedger

SpecRegistry == Init /\ [][NextRegistry]_vars

\* C37: while the escrow of a token is active, the token's owner is the
\* escrow's seller and is not the escrow's buyer, after any sequence of
\* mint, setNote, freezeMetadata, saleOpen, transfer, approve, claim and
\* refund calls.
C37_EscrowSellerIsOwner ==
    \A t \in TokenIds :
        saleEscrows[t].active
            => /\ owners[t] = saleEscrows[t].seller
               /\ owners[t] # saleEscrows[t].buyer

\* The token was transferred after its mint and its new owner has opened
\* the escrow.
C37_Witness ==
    /\ InEscrow(1)
    /\ ret.op = "saleOpen"
    /\ Count("Transfer", 1) = 2
    /\ owners[1] = ret.caller

\* C38: an escrowed token is never locked for ever.  In every state with an
\* active escrow the ledger accepts a refund from the escrow's seller, and
\* from any caller once now >= expiryTimestamp; canClaim and canRefund are
\* never both true; so no call leaves an active escrow that cannot be
\* refunded.
C38_EscrowAlwaysRefundable ==
    \A t \in TokenIds :
        saleEscrows[t].active
            => /\ refundError(saleEscrows[t].seller, t) = ""
               /\ now >= saleEscrows[t].expiryTimestamp
                      => \A caller \in Addr : refundError(caller, t) = ""
               /\ \A secretS \in Bytes32 : ~ (/\ canClaim(t, secretS) = Returns(TRUE)
                                              /\ canRefund(t) = Returns(TRUE))

\* An escrow was refunded and the token is in escrow again, before the
\* expiry of the new escrow.
C38_Witness ==
    /\ InEscrow(1)
    /\ now < saleEscrows[1].expiryTimestamp
    /\ Count("SaleRefund", 1) = 1
    /\ ret.op = "saleOpen"

-----------------------------------------------------------------------------
(* Properties of the detector's notifications, under Spec *)

\* C39: exactly one completion notification per settlement.  When a claim
\* of the coordinator has taken effect on the ledger and its receipt comes
\* back, the detector emits exactly one swap_completed for the token, and
\* when a refund of the coordinator has taken effect exactly one
\* swap_refunded with one reason, whether the call came from the automatic
\* path or from forceClaimAsset / forceRefundAsset: the force method that
\* goes on after the notification of its settlement emits nothing.
C39_OneNotificationPerSettlement ==
    [][vars' # vars =>
        \A task \in BagToSet(tasks) :
            /\ (/\ task.kind = "claim"
                /\ task.answer = << Receipt(1) >>
                /\ claimAsset(task, TRUE))
                   => /\ Len(emits') = 1
                      /\ emits'[1].type = "swap_completed"
                      /\ emits'[1].tokenId = task.tokenId
            /\ (/\ task.kind = "refund"
                /\ task.answer = << Receipt(1) >>
                /\ refundAsset(task, TRUE))
                   => /\ Len(emits') = 1
                      /\ emits'[1].type = "swap_refunded"
                      /\ emits'[1].tokenId = task.tokenId
            /\ (\/ forceClaimAssetResumes(task)
                \/ forceRefundAssetResumes(task))
                   => emits' = << >>
      ]_vars

-----------------------------------------------------------------------------
(* The indexer's event normalizer (services/indexer/src/utils/events.ts). *)
(* A raw log is an entry of the ledger's log with the number of the block *)
(* it was mined in.  A canonical event keeps type, tokenId, blockNumber    *)
(* and the fields of its type; it has no log index.  null is the empty    *)
(* set.  txid, timestamp, the addresses and the hash of an event come     *)
(* from the log and the block and always have the form validateEventData  *)
(* asks for; they are not kept here.                                      *)

parseContractEvent(entry, blockNumber) ==
    CASE entry.type = "Minted" ->
            {[type |-> "mint", tokenId |-> entry.tokenId,
              blockNumber |-> blockNumber, minter |-> entry.a,
              title |-> entry.title]}
      [] entry.type = "Transfer" ->
            IF entry.a = ZERO THEN {}
            ELSE {[type |-> "transfer", tokenId |-> entry.tokenId,
                   blockNumber |-> blockNumber, from |-> entry.a, to |-> entry.b]}
      [] entry.type = "SaleOpen" ->
            {[type |-> "sale_open", tokenId |-> entry.tokenId,
              blockNumber |-> blockNumber, seller |-> entry.a, buyer |-> entry.b,
              hashH |-> entry.hashH, priceBTC |-> entry.priceBTC]}
      [] entry.type = "SaleSettle" ->
            {[type |-> "sale_settle", tokenId |-> entry.tokenId,
              blockNumber |-> blockNumber, seller |-> entry.a, buyer |-> entry.b]}
      [] entry.type = "SaleRefund" ->
            {[type |-> "sale_refund", tokenId |-> entry.tokenId,
              blockNumber |-> blockNumber, seller |-> entry.a, buyer |-> entry.b]}
      [] entry.type = "MetadataFrozen" ->
            {[type |-> "freeze", tokenId |-> entry.tokenId,
              blockNumber |-> blockNumber, owner |-> entry.a]}
      [] entry.type = "NoteAdded" ->
            {[type |-> "note", tokenId |-> entry.tokenId,
              blockNumber |-> blockNumber, owner |-> entry.a]}
      [] OTHER -> {}

\* validateEventData(event): the errors of the event; title is the length
\* of the title.  hashH is 32 bytes of a log, bytes32(0) too: the text of
\* it is not empty and has the form asked for, so that 'Invalid hash H' is
\* the error of no event.
validateEventData(event) ==
    LET errors ==
            (IF event.blockNumber <= 0 THEN {"Invalid block number"} ELSE {})
            \cup (IF event.type = "mint" /\ event.title = 0
                  THEN {"Missing asset title"} ELSE {})
            \cup (IF event.type = "sale_open" /\ event.priceBTC <= 0
                  THEN {"Invalid BTC price"} ELSE {})
    IN  [valid |-> errors = {}, errors |-> errors]

\* events.sort((a, b) => a.blockNumber - b.blockNumber): Array.prototype.sort
\* is stable, so the events of one block keep the order they came in.
RECURSIVE sortFromBlock(_, _)
sortFromBlock(events, blockNumber) ==
    IF blockNumber > Len(log) THEN << >>
    ELSE SelectSeq(events, LAMBDA e : e.blockNumber = blockNumber)
         \o sortFromBlock(events, blockNumber + 1)

sortByBlockNumber(events) == sortFromBlock(events, 1)

RECURSIVE statusFrom(_, _)
statusFrom(sortedEvents, i) ==
    IF i < 1 THEN "owned"
    ELSE CASE sortedEvents[i].type = "sale_settle" -> "settled"
           [] sortedEvents[i].type = "sale_refund" -> "refunded"
           [] sortedEvents[i].type = "sale_open" -> "escrow"
           [] sortedEvents[i].type \in {"mint", "transfer"} -> "owned"
           [] OTHER -> statusFrom(sortedEvents, i - 1)

determineAssetStatus(events) ==
    LET sortedEvents == sortByBlockNumber(events)
    IN  statusFrom(sortedEvents, Len(sortedEvents))

RECURSIVE ownerFrom(_, _)
ownerFrom(sortedEvents, i) ==
    IF i < 1 THEN ""
    ELSE CASE sortedEvents[i].type = "sale_settle" -> sortedEvents[i].buyer
           [] sortedEvents[i].type = "transfer" -> sortedEvents[i].to
           [] sortedEvents[i].type = "mint" -> sortedEvents[i].minter
           [] OTHER -> ownerFrom(sortedEvents, i - 1)

getCurrentOwner(events) ==
    LET sortedEvents == sortByBlockNumber(events)
    IN  ownerFrom(sortedEvents, Len(sortedEvents))

\* The ways the chain puts the log into blocks: a new block starts at any
\* of the places of the log except inside a transaction (Transfer and
\* Minted of a mint, Transfer and SaleSettle of a claim).
SameTransaction(i) ==
    /\ log[i].type = "Transfer"
    /\ log[i + 1].type \in {"Minted", "SaleSettle"}

Blockings ==
    {[i \in 1 .. Len(log) |-> 1 + Cardinality({c \in cuts : c < i})] :
        cuts \in SUBSET {i \in 1 .. Len(log) - 1 : ~ SameTransaction(i)}}

\* provider.getLogs({address, fromBlock, toBlock}): the places of the log
\* in the blocks of the range, in the order of the log.
getLogs(blockOf, fromBlock, toBlock) ==
    SelectSeq([i \in 1 .. Len(log) |-> i],
              LAMBDA i : fromBlock <= blockOf[i] /\ blockOf[i] <= toBlock)

\* The loop of fetchEventsForRange over the logs: an event that parses and
\* is valid is pushed, any other log is skipped.
RECURSIVE parseFrom(_, _, _)
parseFrom(logs, blockOf, k) ==
    IF k > Len(logs) THEN << >>
    ELSE LET event == parseContractEvent(log[logs[k]], blockOf[logs[k]])
         IN  (IF event = {} THEN << >>
              ELSE LET e == CHOOSE e \in event : TRUE
                   IN  IF validateEventData(e).valid THEN << e >> ELSE << >>)
             \o parseFrom(logs, blockOf, k + 1)

\* fetchEventsForRange: the valid events of the logs of the range, sorted
\* by block.
fetchEventsForRange(blockOf, fromBlock, toBlock) ==
    sortByBlockNumber(parseFrom(getLogs(blockOf, fromBlock, toBlock), blockOf, 1))

\* performSync with the chain at currentBlock, on a cache that has
\* processed the blocks up to lastProcessed (0: none yet): the events it
\* adds to the cache.  startBlock is config.startBlock, 0 when START_BLOCK
\* is not set.  The batches are fetched and added in the order of the
\* blocks, so that what they add is what one fetch of the whole range
\* gives.
performSync(blockOf, lastProcessed, currentBlock, startBlock) ==
    LET fromBlock ==
            IF lastProcessed = 0
            THEN IF startBlock # 0 THEN startBlock
                 ELSE IF currentBlock - 1000 > 0 THEN currentBlock - 1000
                 ELSE 0
            ELSE lastProcessed + 1
    IN  IF fromBlock > currentBlock THEN << >>
        ELSE fetchEventsForRange(blockOf, fromBlock, currentBlock)

\* The events the handlers of contract.on('*') parse, one handler per log:
\* the handler does not call validateEventData.
RECURSIVE parseLogs(_, _)
parseLogs(blockOf, i) ==
    IF i > Len(log) THEN << >>
    ELSE LET event == parseContractEvent(log[i], blockOf[i])
         IN  (IF event = {} THEN << >> ELSE << CHOOSE e \in event : TRUE >>)
             \o parseLogs(blockOf, i + 1)

\* The events at the places kept of an array, in its order.
RECURSIVE pick(_, _, _)
pick(events, kept, i) ==
    IF i > Len(events) THEN << >>
    ELSE (IF i \in kept THEN << events[i] >> ELSE << >>)
         \o pick(events, kept, i + 1)

\* The values of START_BLOCK: not set, and the second block.
StartBlocks == {0, 2}

\* The heights of the chain at the first sync: the block of the last log,
\* or one of the blocks 1000 after the second block of the log and those
\* after it, mined since the last log.
Heights(blockOf) ==
    LET last == IF log = << >> THEN 0 ELSE blockOf[Len(log)]
    IN  {last} \cup {1000 + b : b \in 2 .. last + 1}

\* What the cache holds after the first performSync, with the number of
\* the log's events it lacks: the logs of the blocks before the first
\* block of the sync are never fetched.
Synced ==
    UNION {LET all == Len(parseLogs(blockOf, 1))
           IN  {LET events == performSync(blockOf, 0, currentBlock, startBlock)
                IN  [events |-> events, missing |-> all - Len(events)] :
                    currentBlock \in Heights(blockOf), startBlock \in StartBlocks} :
           blockOf \in Blockings}

\* The arrays the real-time listener may have stored for the token, each
\* with the number of the log's events it lacks.  The handler of each log
\* awaits provider.getBlock before it stores the event, so the events of a
\* block arrive in the order in which those calls return; an event is lost
\* when its getBlock rejects (the catch only logs), and is not in the cache
\* yet while its handler is suspended.  (Events that arrive out of order
\* across blocks are put right by the sort; the arrays here are in the
\* order of the blocks.)
Arrivals ==
    UNION {LET parsed == parseLogs(blockOf, 1)
               arrived(order) == [k \in 1 .. Len(parsed) |-> parsed[order[k]]]
           IN  {[events |-> pick(arrived(order), kept, 1),
                 missing |-> Len(parsed) - Cardinality(kept)] :
                    order \in {o \in Permutations(1 .. Len(parsed)) :
                                  \A k \in 1 .. Len(parsed) - 1 :
                                      parsed[o[k]].blockNumber
                                          <= parsed[o[k + 1]].blockNumber},
                    kept \in SUBSET (1 .. Len(parsed))} :
           blockOf \in Blockings}

\* The indexer derives the owner from the events the cache holds; missing
\* is the number of the token's events the cache does not hold.
CallGetCurrentOwner ==
    /\ \E tokenId \in TokenIds, stored \in Synced \cup Arrivals :
          /\ Exists(tokenId)
          /\ util' = [op |-> "getCurrentOwner", at |-> now, tokenId |-> tokenId,
                      events |-> stored.events, missing |-> stored.missing,
                      result |-> getCurrentOwner(stored.events)]
    /\ UNCHANGED <<ledgerVars, now, offLedger, revealed, service, emits>>

CallDetermineAssetStatus ==
    /\ \E tokenId \in TokenIds, stored \in Synced \cup Arrivals :
          /\ Exists(tokenId)
          /\ util' = [op |-> "determineAssetStatus", at |-> now,
                      tokenId |-> tokenId,
                      events |-> stored.events, missing |-> stored.missing,
                      result |-> determineAssetStatus(stored.events)]
    /\ UNCHANGED <<ledgerVars, now, offLedger, revealed, service, emits>>

\* The owner of the token transfers it.
OwnerTransfers ==
    /\ \E from \in Addr, to \in Addr, tokenId \in TokenIds :
           transferFrom("transferFrom", from, from, to, tokenId)
    /\ UNCHANGED <<offLedger, revealed, util, service, emits>>

\* The seller mints, owners sell to the buyer and transfer, anyone claims
\* and refunds, all at one time of the clock, so that the logs may share a
\* block; the indexer reads the log between the calls.
NextIndexer ==
    \/ PartyMint
    \/ PartySaleOpen
    \/ OwnerTransfers
    \/ CallClaim
    \/ PartyRefund
    \/ CallGetCurrentOwner
    \/ CallDetermineAssetStatus

SpecIndexer == Init /\ [][NextIndexer]_vars

\* C40: the event normalizer tracks the ledger.  Whenever the owner or the
\* status of a token is derived from its canonical events, all the events
\* of its logs, no event is a transfer from the zero address, the derived
\* owner is the ledger's ownerOf, and the derived status is escrow exactly
\* when the ledger's isInEscrow is true, however the logs were spread over
\* blocks and whichever way the events came into the cache.
C40_NormalizerTracksLedger ==
    [][(/\ util' # util
        /\ util'.op \in {"getCurrentOwner", "determineAssetStatus"}
        /\ util'.missing = 0) =>
          /\ \A k \in 1 .. Len(util'.events) :
                util'.events[k].type = "transfer" => util'.events[k].from # ZERO
          /\ util'.op = "getCurrentOwner"
                => util'.result = owners[util'.tokenId]
          /\ util'.op = "determineAssetStatus"
                => (util'.result = "escrow" <=> InEscrow(util'.tokenId))
      ]_vars

====
